---- MODULE Spec2Model ----
(***************************************************************************)
(* Model of the stage-2 peephole optimizer of clvm_tools_rs                *)
(* (src/classic/clvm_tools/stages/stage_2/optimize.rs).                    *)
(*                                                                         *)
(* An s-expression is a tagged tuple: <<"A", bytes>> is the atom whose     *)
(* byte string is the sequence `bytes' (each element in 0..255) and        *)
(* <<"P", l, r>> is the pair of l and r.  A Result<NodePtr, EvalErr> is a  *)
(* record [tag, val, msg]: tag "Ok" with the node in val, or tag "Err"     *)
(* with EvalErr's node in val and its message in msg.  The tag "Fuel"      *)
(* marks a computation cut by a bound of the model; the invariant          *)
(* FuelNeverRunsOut shows no reachable optimisation is cut.                *)
(***************************************************************************)
EXTENDS Integers, Sequences, FiniteSets, TLC

(***************************************************************************)
(* Bounds of the model.                                                    *)
(***************************************************************************)
\* nesting of apply (a) the evaluator follows before it is cut
MaxEvalFuel == 6
\* driver iterations plus nested optimize_sexp calls before a cut
MaxOptFuel == 12
\* rows a CldbRun emits before the model stops calling step
MaxRow == 3

(***************************************************************************)
(* Expression arena: atoms, pairs, deep equality (external collaborator).  *)
(***************************************************************************)
Atom(b) == <<"A", b>>
Pair(l, r) == <<"P", l, r>>
null == Atom(<<>>)
IsAtom(x) == x[1] = "A"
IsPair(x) == x[1] = "P"
buf(x) == x[2]
Left(x) == x[2]
Right(x) == x[3]
equal_to(x, y) == x = y
non_nil(x) == IsPair(x) \/ Len(buf(x)) > 0

Ok(x) == [tag |-> "Ok", val |-> x, msg |-> ""]
Err(x, m) == [tag |-> "Err", val |-> x, msg |-> m]
OutOfFuel == [tag |-> "Fuel", val |-> null, msg |-> ""]
IsOk(res) == res.tag = "Ok"
IsErr(res) == res.tag = "Err"

\* first(allocator, sexp): the left of a pair, an error on an atom
first(x) == IF IsPair(x) THEN Ok(Left(x)) ELSE Err(x, "first of non-cons")

\* atom(allocator, sexp): the bytes of an atom, an error on a pair
atom(x) == IF IsAtom(x) THEN Ok(x) ELSE Err(x, "expected atom")

\* quote(allocator, sexp) builds (q . sexp)
quote(x) == Pair(Atom(<<1>>), x)

RECURSIVE enlist_from(_, _)
enlist_from(s, i) ==
    IF i > Len(s) THEN null ELSE Pair(s[i], enlist_from(s, i + 1))

\* enlist(allocator, vec) builds the nil-terminated list of vec's elements
enlist(s) == enlist_from(s, 1)

NoList == [some |-> FALSE, list |-> <<>>]
SomeList(s) == [some |-> TRUE, list |-> s]

RECURSIVE proper_list_acc(_, _, _)
proper_list_acc(x, store, acc) ==
    IF IsAtom(x)
    THEN IF ~non_nil(x) THEN SomeList(acc) ELSE NoList
    ELSE proper_list_acc(Right(x), store,
                         IF store THEN Append(acc, Left(x)) ELSE acc)

\* proper_list(allocator, sexp, store): Some(elements) for a nil-terminated
\* list (the elements only when store is true), None otherwise
proper_list(x, store) == proper_list_acc(x, store, <<>>)

(***************************************************************************)
(* Number <-> bytes conversions (crate::util).                             *)
(***************************************************************************)
RECURSIVE Pow256(_)
Pow256(n) == IF n = 0 THEN 1 ELSE 256 * Pow256(n - 1)

RECURSIVE unsigned_from_u8(_)
unsigned_from_u8(b) ==
    IF Len(b) = 0 THEN 0
    ELSE 256 * unsigned_from_u8(SubSeq(b, 1, Len(b) - 1)) + b[Len(b)]

\* number_from_u8: big-endian two's complement, the empty string is 0
number_from_u8(b) ==
    IF Len(b) = 0 THEN 0
    ELSE IF b[1] >= 128 THEN unsigned_from_u8(b) - Pow256(Len(b))
    ELSE unsigned_from_u8(b)

RECURSIVE unsigned_to_u8(_)
unsigned_to_u8(v) ==
    IF v = 0 THEN <<>> ELSE Append(unsigned_to_u8(v \div 256), v % 256)

\* u8_from_number for v >= 0: minimal big-endian two's complement (a leading
\* zero byte keeps the sign bit clear); optimize.rs only passes v >= 1
u8_from_number(v) ==
    LET u == unsigned_to_u8(v)
    IN  IF v = 0 THEN <<0>>
        ELSE IF u[1] >= 128 THEN <<0>> \o u ELSE u

(***************************************************************************)
(* Node Path Encoding (classic::clvm_tools::NodePath).                     *)
(***************************************************************************)
RECURSIVE signed_len(_, _)
signed_len(v, n) == IF 2 * v >= -Pow256(n) THEN n ELSE signed_len(v, n + 1)

\* NodePath::new(Some(index)): a negative index is re-read as the unsigned
\* value of its minimal two's complement bytes
NodePath_new(index) ==
    IF index < 0 THEN index + Pow256(signed_len(index, 1)) ELSE index

RECURSIVE compose_paths_loop(_, _, _, _)
compose_paths_loop(path_0, path_1, mask, temp_path) ==
    IF temp_path > 1
    THEN compose_paths_loop(path_0, 2 * path_1, 2 * mask, temp_path \div 2)
    ELSE path_1 + (path_0 % mask)

\* compose_paths(path_0, path_1): follow path_0, then path_1
compose_paths(path_0, path_1) == compose_paths_loop(path_0, path_1, 1, path_0)

NodePath_add(self, other) == NodePath_new(compose_paths(self, other))
NodePath_first(self) == NodePath_new(self * 2)
NodePath_rest(self) == NodePath_new(self * 2 + 1)
\* as_path().data(): minimal unsigned big-endian bytes
NodePath_as_path(self) == IF self = 0 THEN <<0>> ELSE unsigned_to_u8(self)

(***************************************************************************)
(* Pattern Matcher (classic::clvm_tools::pattern_match::match_sexp).       *)
(* Bindings are functions from capture name (its bytes) to subtree.        *)
(***************************************************************************)
ATOM_MATCH == Atom(<<36>>)
SEXP_MATCH == Atom(<<58>>)
NoBindings == [n \in {} |-> null]
NoMatch == [ok |-> FALSE, b |-> NoBindings]
Matched(b) == [ok |-> TRUE, b |-> b]

\* capture names, as the bytes the assembler gives the symbol
N_sexp == <<115, 101, 120, 112>>
N_args == <<97, 114, 103, 115>>
N_first == <<102, 105, 114, 115, 116>>
N_rest == <<114, 101, 115, 116>>
N_atom == <<97, 116, 111, 109>>

unify_bindings(bindings, new_key, new_value) ==
    IF new_key \in DOMAIN bindings
    THEN IF bindings[new_key] # new_value THEN NoMatch ELSE Matched(bindings)
    ELSE Matched([n \in DOMAIN bindings \cup {new_key} |->
                     IF n = new_key THEN new_value ELSE bindings[n]])

RECURSIVE match_sexp(_, _, _)
match_sexp(pattern, sexp, known_bindings) ==
    IF IsAtom(pattern)
    THEN IF IsPair(sexp) THEN NoMatch
         ELSE IF buf(pattern) = buf(sexp) THEN Matched(known_bindings)
         ELSE NoMatch
    ELSE LET left == Left(pattern)
             right == Right(pattern)
         IN  IF left = ATOM_MATCH
             THEN IF IsPair(sexp) THEN NoMatch
                  ELSE IF right = ATOM_MATCH
                  THEN IF sexp = ATOM_MATCH THEN Matched(NoBindings) ELSE NoMatch
                  ELSE unify_bindings(known_bindings, buf(right), sexp)
             ELSE IF left = SEXP_MATCH
             THEN IF right = SEXP_MATCH
                  THEN IF sexp = SEXP_MATCH THEN Matched(NoBindings) ELSE NoMatch
                  ELSE unify_bindings(known_bindings, buf(right), sexp)
             ELSE IF IsAtom(sexp) THEN NoMatch
             ELSE LET new_bindings == match_sexp(left, Left(sexp), known_bindings)
                  IN  IF ~new_bindings.ok THEN NoMatch
                      ELSE match_sexp(right, Right(sexp), new_bindings.b)

\* m.get(name): the binding of a successful match, if any
HasBinding(m, name) == m.ok /\ name \in DOMAIN m.b

(***************************************************************************)
(* Evaluator (TRunProgram::run_program, the clvm virtual machine): quote,  *)
(* apply, i, c, f, r, l, x and environment paths; every other operator    *)
(* atom is rejected as in strict mode.                                     *)
(***************************************************************************)
RECURSIVE traverse_bits(_, _)
traverse_bits(n, args) ==
    IF n <= 1 THEN Ok(args)
    ELSE IF IsAtom(args) THEN Err(args, "path into atom")
    ELSE traverse_bits(n \div 2, IF n % 2 = 1 THEN Right(args) ELSE Left(args))

\* traverse_path: an all-zero (or empty) path is nil, otherwise the bits
\* above the leading one select first (0) or rest (1), least significant first
traverse_path(node_index, args) ==
    LET n == unsigned_from_u8(node_index)
    IN  IF n = 0 THEN Ok(null) ELSE traverse_bits(n, args)

\* operator_lookup.op on evaluated operands
apply_operator(op, operands) ==
    LET pl == proper_list(operands, TRUE)
        args == pl.list
        n == Len(args)
    IN  IF buf(op) = <<4>>
        THEN IF pl.some /\ n = 2 THEN Ok(Pair(args[1], args[2]))
             ELSE Err(operands, "c takes exactly 2 arguments")
        ELSE IF buf(op) = <<5>>
        THEN IF ~(pl.some /\ n = 1) THEN Err(operands, "f takes exactly 1 argument")
             ELSE IF IsAtom(args[1]) THEN Err(args[1], "first of non-cons")
             ELSE Ok(Left(args[1]))
        ELSE IF buf(op) = <<6>>
        THEN IF ~(pl.some /\ n = 1) THEN Err(operands, "r takes exactly 1 argument")
             ELSE IF IsAtom(args[1]) THEN Err(args[1], "rest of non-cons")
             ELSE Ok(Right(args[1]))
        ELSE IF buf(op) = <<7>>
        THEN IF ~(pl.some /\ n = 1) THEN Err(operands, "l takes exactly 1 argument")
             ELSE IF IsPair(args[1]) THEN Ok(Atom(<<1>>)) ELSE Ok(null)
        ELSE IF buf(op) = <<3>>
        THEN IF ~(pl.some /\ n = 3) THEN Err(operands, "i takes exactly 3 arguments")
             ELSE IF non_nil(args[1]) THEN Ok(args[2]) ELSE Ok(args[3])
        ELSE IF buf(op) = <<8>>
        THEN Err(operands, "clvm raise")
        ELSE Err(op, "unimplemented operator")

RECURSIVE eval_pair(_, _, _)
RECURSIVE eval_operands(_, _, _)
RECURSIVE apply_op(_, _, _)

\* the Apply operation: op is an atom, operands the operand values
apply_op(op, operands, fuel) ==
    IF buf(op) = <<2>>
    THEN LET pl == proper_list(operands, TRUE)
         IN  IF ~(pl.some /\ Len(pl.list) = 2)
             THEN Err(operands, "apply requires exactly 2 parameters")
             ELSE IF fuel = 0 THEN OutOfFuel
             ELSE eval_pair(pl.list[1], pl.list[2], fuel - 1)
    ELSE apply_operator(op, operands)

\* evaluates each operand in turn; the first failure is the result
eval_operands(operands, args, fuel) ==
    IF IsAtom(operands)
    THEN IF non_nil(operands) THEN Err(operands, "bad operand list") ELSE Ok(null)
    ELSE LET rest_v == eval_operands(Right(operands), args, fuel)
             first_v == eval_pair(Left(operands), args, fuel)
         IN  IF ~IsOk(first_v) THEN first_v
             ELSE IF ~IsOk(rest_v) THEN rest_v
             ELSE Ok(Pair(first_v.val, rest_v.val))

eval_pair(program, args, fuel) ==
    IF IsAtom(program) THEN traverse_path(buf(program), args)
    ELSE LET op_node == Left(program)
             op_list == Right(program)
         IN  IF IsPair(op_node)
             THEN IF IsAtom(Left(op_node)) /\ Right(op_node) = null
                  THEN apply_op(Left(op_node), op_list, fuel)
                  ELSE Err(program, "in ((X)...) syntax X must be lone atom")
             ELSE IF buf(op_node) = <<1>> THEN Ok(op_list)
             ELSE LET vals == eval_operands(op_list, args, fuel)
                  IN  IF ~IsOk(vals) THEN vals
                      ELSE apply_op(op_node, vals.val, fuel)

\* runner.run_program(allocator, program, args, None)
run_program(program, args) == eval_pair(program, args, MaxEvalFuel)

(***************************************************************************)
(* Constant Folder.                                                        *)
(***************************************************************************)
RECURSIVE seems_constant(_)
RECURSIVE seems_constant_tail(_)

\* a tail test that accepts a tail ending in any atom
seems_constant_tail_any_atom(sexp) ==
    IF IsPair(sexp)
    THEN IF ~seems_constant(Left(sexp)) THEN FALSE
         ELSE seems_constant_tail(Right(sexp))
    ELSE TRUE

seems_constant_tail(sexp) ==
    IF IsPair(sexp)
    THEN IF ~seems_constant(Left(sexp)) THEN FALSE
         ELSE seems_constant_tail(Right(sexp))
    ELSE sexp = null

seems_constant(sexp) ==
    IF IsAtom(sexp) THEN sexp = null
    ELSE LET operator == Left(sexp)
             r == Right(sexp)
         IN  IF IsAtom(operator) /\ buf(operator) = <<1>> THEN TRUE
             ELSE IF IsAtom(operator) /\ buf(operator) = <<8>> THEN FALSE
             ELSE IF IsPair(operator) /\ ~seems_constant(operator) THEN FALSE
             ELSE seems_constant_tail(r)

\* a call through the runner a rule is handed (Rc<dyn TRunProgram>): eval_f is
\* the evaluator; any other runner here fails whenever it is called
runner_run_program(runner, program, args) ==
    IF runner = "eval_f" THEN run_program(program, args)
    ELSE Err(program, "evaluator called")

\* a fold that also fires on nil: quoting the nil result gives (q), which the
\* quote-nil collapse turns back into nil
constant_optimizer_folds_nil(r, runner) ==
    IF seems_constant(r)
    THEN LET res == runner_run_program(runner, r, null)
         IN  IF ~IsOk(res) THEN res ELSE Ok(quote(res.val))
    ELSE Ok(r)

\* a fold that returns the evaluator's value without quoting it
constant_optimizer_unquoted(r, runner) ==
    IF seems_constant(r) /\ non_nil(r)
    THEN LET res == runner_run_program(runner, r, null)
         IN  IF ~IsOk(res) THEN res ELSE Ok(res.val)
    ELSE Ok(r)

constant_optimizer(r, runner) ==
    IF seems_constant(r) /\ non_nil(r)
    THEN LET res == runner_run_program(runner, r, null)
         IN  IF ~IsOk(res) THEN res ELSE Ok(quote(res.val))
    ELSE Ok(r)

(***************************************************************************)
(* Pattern templates, as the assembler builds them.                        *)
(***************************************************************************)
Capture(name) == Pair(SEXP_MATCH, Atom(name))
AtomCapture(name) == Pair(ATOM_MATCH, Atom(name))

\* (a (q . (: . sexp)) (: . args))
cons_q_a_optimizer_pattern ==
    enlist(<<Atom(<<2>>), Pair(Atom(<<1>>), Capture(N_sexp)), Capture(N_args)>>)
\* (c (: . first) (: . rest))
cons_pattern == enlist(<<Atom(<<4>>), Capture(N_first), Capture(N_rest)>>)
\* (a (q . (: . sexp)) (: . args))
var_change_optimizer_cons_eval_pattern ==
    enlist(<<Atom(<<2>>), Pair(Atom(<<1>>), Capture(N_sexp)), Capture(N_args)>>)
\* (f (c (: . first) (: . rest)))
cons_optimizer_pattern_first == enlist(<<Atom(<<5>>), cons_pattern>>)
\* (r (c (: . first) (: . rest)))
cons_optimizer_pattern_rest == enlist(<<Atom(<<6>>), cons_pattern>>)
\* (f ($ . atom))
first_atom_pattern == enlist(<<Atom(<<5>>), AtomCapture(N_atom)>>)
\* (r ($ . atom))
rest_atom_pattern == enlist(<<Atom(<<6>>), AtomCapture(N_atom)>>)
\* (q . 0)
quote_pattern_1 == Pair(Atom(<<1>>), null)
\* (a 0 . (: . rest))
apply_null_pattern_1 == Pair(Atom(<<2>>), Pair(null, Capture(N_rest)))

(***************************************************************************)
(* Rewrite rules that call nothing recursive.                              *)
(***************************************************************************)
\* an environment test by numeric value, as path_from_args tests its path
is_args_call_by_value(r) == IsAtom(r) /\ number_from_u8(buf(r)) <= 1

is_args_call(r) == IsAtom(r) /\ Len(buf(r)) = 1 /\ buf(r)[1] = 1

cons_q_a_optimizer(r) ==
    LET matched == match_sexp(cons_q_a_optimizer_pattern, r, NoBindings)
    IN  IF HasBinding(matched, N_args) /\ HasBinding(matched, N_sexp)
        THEN IF is_args_call(matched.b[N_args])
             THEN Ok(matched.b[N_sexp])
             ELSE Ok(r)
        ELSE Ok(r)

cons_f(args) ==
    LET m == match_sexp(cons_pattern, args, NoBindings)
    IN  IF HasBinding(m, N_first) THEN m.b[N_first]
        ELSE Pair(Atom(<<5>>), Pair(args, null))

cons_r(args) ==
    LET m == match_sexp(cons_pattern, args, NoBindings)
    IN  IF HasBinding(m, N_rest) THEN m.b[N_rest]
        ELSE Pair(Atom(<<6>>), Pair(args, null))

RECURSIVE path_from_args(_, _)
path_from_args(sexp, new_args) ==
    IF IsAtom(sexp)
    THEN LET v == number_from_u8(buf(sexp))
         IN  IF v <= 1 THEN new_args
             ELSE LET sexp1 == Atom(u8_from_number(v \div 2))
                  IN  IF v % 2 # 0
                      THEN path_from_args(sexp1, cons_r(new_args))
                      ELSE path_from_args(sexp1, cons_f(new_args))
    ELSE new_args

RECURSIVE sub_args(_, _)
sub_args(sexp, new_args) ==
    IF IsAtom(sexp) THEN path_from_args(sexp, new_args)
    ELSE LET first_pre == first(sexp).val
             first_ == IF IsPair(first_pre)
                       THEN sub_args(first_pre, new_args)
                       ELSE first_pre
             args == proper_list(first_, TRUE)
         IN  IF args.some THEN enlist(args.list)
             ELSE path_from_args(sexp, new_args)

\* a cancellation that takes the first operand of the cons in both shapes
cons_optimizer_first_for_rest(r) ==
    LET t1 == match_sexp(cons_optimizer_pattern_first, r, NoBindings)
        t2 == match_sexp(cons_optimizer_pattern_rest, r, NoBindings)
    IN  IF HasBinding(t1, N_first) THEN Ok(t1.b[N_first])
        ELSE IF HasBinding(t2, N_first) THEN Ok(t2.b[N_first])
        ELSE Ok(r)

cons_optimizer(r) ==
    LET t1 == match_sexp(cons_optimizer_pattern_first, r, NoBindings)
        t2 == match_sexp(cons_optimizer_pattern_rest, r, NoBindings)
    IN  IF HasBinding(t1, N_first) THEN Ok(t1.b[N_first])
        ELSE IF HasBinding(t2, N_rest) THEN Ok(t2.b[N_rest])
        ELSE Ok(r)

\* a compaction that adds the rest step for f and the first step for r
path_optimizer_steps_swapped(r) ==
    LET first_match == match_sexp(first_atom_pattern, r, NoBindings)
        rest_match == match_sexp(rest_atom_pattern, r, NoBindings)
    IN  IF first_match.ok
        THEN IF N_atom \in DOMAIN first_match.b /\ IsOk(atom(first_match.b[N_atom]))
             THEN LET a == number_from_u8(buf(first_match.b[N_atom]))
                      node == NodePath_add(NodePath_new(a),
                                           NodePath_rest(NodePath_new(1)))
                  IN  Ok(Atom(NodePath_as_path(node)))
             ELSE Ok(r)
        ELSE IF rest_match.ok
        THEN IF N_atom \in DOMAIN rest_match.b /\ IsOk(atom(rest_match.b[N_atom]))
             THEN LET a == number_from_u8(buf(rest_match.b[N_atom]))
                      node == NodePath_add(NodePath_new(a),
                                           NodePath_first(NodePath_new(1)))
                  IN  Ok(Atom(NodePath_as_path(node)))
             ELSE Ok(r)
        ELSE Ok(r)

path_optimizer(r) ==
    LET first_match == match_sexp(first_atom_pattern, r, NoBindings)
        rest_match == match_sexp(rest_atom_pattern, r, NoBindings)
    IN  IF first_match.ok
        THEN IF N_atom \in DOMAIN first_match.b /\ IsOk(atom(first_match.b[N_atom]))
             THEN LET a == number_from_u8(buf(first_match.b[N_atom]))
                      node == NodePath_add(NodePath_new(a),
                                           NodePath_first(NodePath_new(1)))
                  IN  Ok(Atom(NodePath_as_path(node)))
             ELSE Ok(r)
        ELSE IF rest_match.ok
        THEN IF N_atom \in DOMAIN rest_match.b /\ IsOk(atom(rest_match.b[N_atom]))
             THEN LET a == number_from_u8(buf(rest_match.b[N_atom]))
                      node == NodePath_add(NodePath_new(a),
                                           NodePath_rest(NodePath_new(1)))
                  IN  Ok(Atom(NodePath_as_path(node)))
             ELSE Ok(r)
        ELSE Ok(r)

quote_null_optimizer(r) ==
    LET t1 == match_sexp(quote_pattern_1, r, NoBindings)
    IN  IF t1.ok THEN Ok(null) ELSE Ok(r)

\* a collapse that needs the operands after nil to end in nil
apply_null_optimizer_proper_args(r) ==
    LET t1 == match_sexp(apply_null_pattern_1, r, NoBindings)
    IN  IF t1.ok /\ proper_list(r, FALSE).some THEN Ok(null) ELSE Ok(r)

apply_null_optimizer(r) ==
    LET t1 == match_sexp(apply_null_pattern_1, r, NoBindings)
    IN  IF t1.ok THEN Ok(null) ELSE Ok(r)

(***************************************************************************)
(* Rules that call optimize_sexp, and the fixed-point driver as a function.*)
(* `fuel' counts driver iterations and nested optimize_sexp calls.         *)
(***************************************************************************)
RECURSIVE optimize_sexp_(_, _)
RECURSIVE optimize_loop(_, _)
RECURSIVE optimizers_pass(_, _, _)
RECURSIVE to_run(_, _, _)
RECURSIVE mapM_optimize(_, _, _)
RECURSIVE children_optimizer(_, _)
RECURSIVE var_change_optimizer_cons_eval(_, _)

\* a map that keeps the unoptimized element when its optimisation fails
mapM_best_effort(list, i, fuel) ==
    IF i > Len(list) THEN [ok |-> TRUE, list |-> <<>>, err |-> Ok(null)]
    ELSE LET h == optimize_sexp_(list[i], fuel)
             t == mapM_optimize(list, i + 1, fuel)
         IN  [ok |-> TRUE,
              list |-> <<IF IsOk(h) THEN h.val ELSE list[i]>> \o t.list,
              err |-> Ok(null)]

\* mapM(allocator, list, optimize_sexp): the results in order, or the first
\* failure; the result list is in the field list, a failure in the field err
mapM_optimize(list, i, fuel) ==
    IF i > Len(list) THEN [ok |-> TRUE, list |-> <<>>, err |-> Ok(null)]
    ELSE LET h == optimize_sexp_(list[i], fuel)
         IN  IF ~IsOk(h) THEN [ok |-> FALSE, list |-> <<>>, err |-> h]
             ELSE LET t == mapM_optimize(list, i + 1, fuel)
                  IN  IF ~t.ok THEN t
                      ELSE [ok |-> TRUE, list |-> <<h.val>> \o t.list,
                            err |-> Ok(null)]

\* a count in which only nil atoms and quote-headed pairs are constant
non_constant_step_counts_paths(val) ==
    IF IsAtom(val) THEN IF non_nil(val) THEN 1 ELSE 0
    ELSE IF Left(val) = Atom(<<1>>) THEN 0 ELSE 1

\* the foldM step of var_change_optimizer_cons_eval: 1 when the optimized
\* operand is counted as non-constant, else 0
non_constant_step(val) ==
    IF IsAtom(val) THEN 0
    ELSE LET f == Left(val)
         IN  IF IsAtom(f)
             THEN IF buf(f) = <<1>> THEN 0 ELSE 1
             ELSE IF ~proper_list(val, FALSE).some THEN 0 ELSE 1

RECURSIVE non_constant_count(_, _)
non_constant_count(list, i) ==
    IF i > Len(list) THEN 0
    ELSE non_constant_step(list[i]) + non_constant_count(list, i + 1)

\* the rule with the threshold of its comment: one non-constant operand is
\* still accepted
var_change_optimizer_cons_eval_keeps_one(r, fuel) ==
    LET t1 == match_sexp(var_change_optimizer_cons_eval_pattern, r, NoBindings)
    IN  IF ~t1.ok THEN Ok(r)
        ELSE LET original_args ==
                     IF N_args \in DOMAIN t1.b THEN t1.b[N_args] ELSE null
                 original_call ==
                     IF N_sexp \in DOMAIN t1.b THEN t1.b[N_sexp] ELSE null
                 new_eval_sexp_args == sub_args(original_call, original_args)
             IN  IF seems_constant(new_eval_sexp_args)
                 THEN optimize_sexp_(new_eval_sexp_args, fuel)
                 ELSE LET new_operands == proper_list(new_eval_sexp_args, TRUE)
                      IN  IF ~new_operands.some THEN Ok(r)
                          ELSE LET opt_operands ==
                                       mapM_optimize(new_operands.list, 1, fuel)
                               IN  IF ~opt_operands.ok THEN opt_operands.err
                                   ELSE IF non_constant_count(opt_operands.list, 1) <= 1
                                   THEN Ok(enlist(opt_operands.list))
                                   ELSE Ok(r)

var_change_optimizer_cons_eval(r, fuel) ==
    LET t1 == match_sexp(var_change_optimizer_cons_eval_pattern, r, NoBindings)
    IN  IF ~t1.ok THEN Ok(r)
        ELSE LET original_args ==
                     IF N_args \in DOMAIN t1.b THEN t1.b[N_args] ELSE null
                 original_call ==
                     IF N_sexp \in DOMAIN t1.b THEN t1.b[N_sexp] ELSE null
                 new_eval_sexp_args == sub_args(original_call, original_args)
             IN  IF seems_constant(new_eval_sexp_args)
                 THEN optimize_sexp_(new_eval_sexp_args, fuel)
                 ELSE LET new_operands == proper_list(new_eval_sexp_args, TRUE)
                      IN  IF ~new_operands.some THEN Ok(r)
                          ELSE LET opt_operands ==
                                       mapM_optimize(new_operands.list, 1, fuel)
                               IN  IF ~opt_operands.ok THEN opt_operands.err
                                   ELSE IF non_constant_count(opt_operands.list, 1) < 1
                                   THEN Ok(enlist(opt_operands.list))
                                   ELSE Ok(r)

\* a children rule that also descends into quoted data
children_optimizer_into_quote(r, fuel) ==
    LET list == proper_list(r, TRUE)
    IN  IF ~list.some THEN Ok(r)
        ELSE IF Len(list.list) = 0 THEN Ok(r)
        ELSE LET optimized == mapM_optimize(list.list, 1, fuel)
             IN  IF ~optimized.ok THEN optimized.err
                 ELSE Ok(enlist(optimized.list))

children_optimizer(r, fuel) ==
    LET list == proper_list(r, TRUE)
    IN  IF ~list.some THEN Ok(r)
        ELSE IF Len(list.list) = 0 THEN Ok(r)
        ELSE IF IsAtom(list.list[1]) /\ buf(list.list[1]) = <<1>> THEN Ok(r)
        ELSE LET optimized == mapM_optimize(list.list, 1, fuel)
             IN  IF ~optimized.ok THEN optimized.err
                 ELSE Ok(enlist(optimized.list))

\* the vector with the children rule ahead of the reindexing rule
OPTIMIZERS_children_first ==
    << "cons_optimizer", "constant_optimizer", "cons_q_a_optimizer",
       "children_optimizer", "var_change_optimizer_cons_eval",
       "path_optimizer", "quote_null_optimizer", "apply_null_optimizer" >>

\* the names of the OPTIMIZERS vector, in its order
OPTIMIZERS ==
    << "cons_optimizer", "constant_optimizer", "cons_q_a_optimizer",
       "var_change_optimizer_cons_eval", "children_optimizer",
       "path_optimizer", "quote_null_optimizer", "apply_null_optimizer" >>

\* the closure an OptimizerRunner of that name holds
to_run(name, r, fuel) ==
    CASE name = "cons_optimizer" -> cons_optimizer(r)
      [] name = "constant_optimizer" -> constant_optimizer(r, "eval_f")
      [] name = "cons_q_a_optimizer" -> cons_q_a_optimizer(r)
      [] name = "var_change_optimizer_cons_eval" ->
             var_change_optimizer_cons_eval(r, fuel)
      [] name = "children_optimizer" -> children_optimizer(r, fuel)
      [] name = "path_optimizer" -> path_optimizer(r)
      [] name = "quote_null_optimizer" -> quote_null_optimizer(r)
      [] name = "apply_null_optimizer" -> apply_null_optimizer(r)

\* OPTIMIZERS[i - 1].invoke(allocator, r, eval_f)
invoke(i, r, fuel) == to_run(OPTIMIZERS[i], r, fuel)

\* the for loop over OPTIMIZERS from rule i on: the first failure, the first
\* result that differs from r, or r when every rule returned it
optimizers_pass(r, i, fuel) ==
    IF i > Len(OPTIMIZERS) THEN Ok(r)
    ELSE LET res == invoke(i, r, fuel)
         IN  IF ~IsOk(res) THEN res
             ELSE IF ~equal_to(r, res.val) THEN res
             ELSE optimizers_pass(r, i + 1, fuel)

\* the while loop of optimize_sexp_
optimize_loop(r, fuel) ==
    IF ~proper_list(r, FALSE).some THEN Ok(r)
    ELSE IF fuel = 0 THEN OutOfFuel
    ELSE LET res == optimizers_pass(r, 1, fuel - 1)
         IN  IF ~IsOk(res) THEN res
             ELSE IF equal_to(r, res.val) THEN Ok(r)
             ELSE optimize_loop(res.val, fuel - 1)

optimize_sexp_(r_, fuel) ==
    IF IsAtom(r_) THEN Ok(r_) ELSE optimize_loop(r_, fuel)

optimize_sexp(r) == optimize_sexp_(r, MaxOptFuel)

(***************************************************************************)
(* Inputs: program trees built from the optimizer's opcodes and paths.     *)
(***************************************************************************)
Q == Atom(<<1>>)
A == Atom(<<2>>)
I == Atom(<<3>>)
C == Atom(<<4>>)
F == Atom(<<5>>)
R == Atom(<<6>>)
X == Atom(<<8>>)

List1(ops, xs) == {enlist(<<op, x>>) : op \in ops, x \in xs}
List2(ops, xs, ys) == {enlist(<<op, x, y>>) : op \in ops, x \in xs, y \in ys}
Dotted(ops, xs) == {Pair(op, x) : op \in ops, x \in xs}
Apply(bodies, args) == {enlist(<<A, quote(s), g>>) : s \in bodies, g \in args}

\* atoms: nil, the environment, paths, a zero byte and a negative number
Leaves == {null, Q, A, F, Atom(<<0>>), Atom(<<128>>)}
Paths == {null, Q, A, F}
Quoted == Dotted({Q}, {null, Q, Pair(Q, A), enlist(<<F, Q>>)})
Small ==
    Leaves \cup Quoted
    \cup List1({F, R}, Paths)
    \cup List2({C}, {null, Q, A}, {null, A})
    \cup {enlist(<<X>>), enlist(<<F, quote(Pair(Q, A))>>),
          enlist(<<C, enlist(<<F, null>>), Q>>)}
    \cup Apply({A, F, enlist(<<F, Q>>), Pair(Q, Q)}, {Q, A})
Programs ==
    Small
    \cup List1({F, R, X, Pair(F, null), enlist(<<R, Q>>)}, Small)
    \cup List2({C}, Small, Small)
    \cup Apply(Small, Small)
    \cup Dotted({F, C, A}, Small \ {null})
    \cup {Pair(A, Pair(null, t)) : t \in Small}
    \cup Apply({A}, {enlist(<<enlist(<<X>>), Q>>), Pair(enlist(<<X>>), Q)})
    \cup Apply({enlist(<<F, Q>>)}, {enlist(<<enlist(<<X>>), enlist(<<X>>)>>)})
    \cup {enlist(<<op, enlist(<<C, x, y>>)>>) :
             op \in {F, R}, x \in Small, y \in {A, enlist(<<X>>), quote(Q)}}

\* operand lists handed to the operator adapter
OperandLists ==
    {Pair(p, null) : p \in Programs}
    \cup {Pair(p, Q) : p \in Quoted}
    \cup {null, F}

\* argument environments programs are run on
Environments ==
    { null, Atom(<<7>>), Pair(Q, A),
      Pair(Pair(Q, A), Pair(null, F)),
      enlist(<<Pair(F, Q), A, enlist(<<F, Q>>)>>) }

(***************************************************************************)
(* CldbRun: the data a step works on.  A value is a compiler SExp reduced  *)
(* to its printed text and its number (NotNumber when get_number fails); a *)
(* RunStep and a RunFailure are records tagged by their constructor.       *)
(***************************************************************************)
NotNumber == 0 - 1
\* SExp::Integer(l, i), SExp::Atom(l, name) and SExp::Cons(l, a, b)
SExp_Integer(l, i) ==
    [variant |-> "Integer", loc |-> l, text |-> ToString(i), num |-> i]
SExp_Atom(l, text, num) ==
    [variant |-> "Atom", loc |-> l, text |-> text, num |-> num]
SExp_Cons(l, text) ==
    [variant |-> "Cons", loc |-> l, text |-> text, num |-> NotNumber]
\* a value of the running program: an integer, or a cons (no number)
Value(text, num) ==
    IF num = NotNumber THEN SExp_Cons("f.clsp(1):1", text)
    ELSE [SExp_Integer("f.clsp(1):1", num) EXCEPT !.text = text]
Values == {Value("2", 2), Value("11", 11), Value("x", NotNumber)}
Locs == {"f.clsp(1):1", "*hex*(2):3"}

\* the context an Op carries: a cons (a . b), or anything else
Contexts ==
    {[is_cons |-> TRUE, text |-> "(e . r)", first |-> "e", rest |-> "r"],
     [is_cons |-> FALSE, text |-> "c", first |-> "", rest |-> ""]}
\* argument lists of an Op, as the sequence of their elements
ArgLists == {<<>>, <<Value("2", 2), Value("x", NotNumber), Value("11", 11)>>}

NoValue == [some |-> FALSE, v |-> Value("", NotNumber)]
SomeValue(x) == [some |-> TRUE, v |-> x]

\* the parent a step carries (an Rc<RunStep>), by name; NoParent where the
\* constructor has none
NoParent == ""
Parents == {"p1", "p2"}

RunStep_Done(l, x) ==
    [kind |-> "Done", loc |-> l, val |-> x, ctx |-> "", args |-> <<>>,
     pending |-> FALSE, name |-> "", parent |-> NoParent]
RunStep_OpResult(l, x, p) ==
    [kind |-> "OpResult", loc |-> l, val |-> x, ctx |-> "", args |-> <<>>,
     pending |-> FALSE, name |-> "", parent |-> p]
\* Op(sexp, c, a, v, p): l is a.loc(), name the source text at sexp.loc() in
\* the input file ("" when there is none)
RunStep_Op(sexp, c, a, l, v, n, p) ==
    [kind |-> "Op", loc |-> l, val |-> sexp, ctx |-> c, args |-> a,
     pending |-> v, name |-> n, parent |-> p]
RunStep_Step ==
    [kind |-> "Step", loc |-> "", val |-> Value("", NotNumber), ctx |-> "",
     args |-> <<>>, pending |-> FALSE, name |-> "", parent |-> NoParent]
RunFailure_RunExn(l, s) ==
    [kind |-> "RunExn", loc |-> l, val |-> s, ctx |-> "", args |-> <<>>,
     pending |-> FALSE, name |-> "", parent |-> NoParent]
RunFailure_RunErr(l, s) ==
    [kind |-> "RunErr", loc |-> l, val |-> s, ctx |-> "", args |-> <<>>,
     pending |-> FALSE, name |-> "", parent |-> NoParent]

\* what the environment override, or run_step, can hand back
OpResults == {RunStep_OpResult(l, x, "p1") : l \in Locs, x \in Values}
Dones == {RunStep_Done(l, x) : l \in Locs, x \in Values}
OpsNone ==
    {RunStep_Op(s, c, a, "f.clsp(1):1", FALSE, n, "p1") :
        s \in Values, c \in Contexts, a \in ArgLists, n \in {"", "fun"}}
OpsSome ==
    {RunStep_Op(Value("2", 2), c, <<>>, "f.clsp(1):1", TRUE, "", "p1") :
        c \in Contexts}
RunExns == {RunFailure_RunExn(l, Value("x", NotNumber)) : l \in Locs}
RunErrs == {RunFailure_RunErr(l, Value("bad", NotNumber)) : l \in Locs}

\* BTreeMap<String, String>: a function from its keys; insert replaces
EmptyMap == [k \in {} |-> ""]
insert(map, k, v) == (k :> v) @@ map
NoMap == [some |-> FALSE, map |-> EmptyMap]
SomeMap(m) == [some |-> TRUE, map |-> m]

\* get_arg_associations: the prior results of the arguments that are numbers
\* with an entry in associations, in order
RECURSIVE get_arg_associations(_, _, _)
get_arg_associations(associations, args, i) ==
    IF i > Len(args) THEN <<>>
    ELSE (IF args[i].num # NotNumber /\ args[i].num \in DOMAIN associations
          THEN <<associations[args[i].num]>> ELSE <<>>)
         \o get_arg_associations(associations, args, i + 1)

\* format_arg_inputs: the references joined by ", "
RECURSIVE format_arg_inputs(_, _)
format_arg_inputs(args, i) ==
    IF i > Len(args) THEN ""
    ELSE IF i = Len(args) THEN ToString(args[i])
    ELSE ToString(args[i]) \o ", " \o format_arg_inputs(args, i + 1)

\* CldbRunEnv::whether_is_apply
whether_is_apply(s) == s.num = 2

\* CldbRunEnv::add_context
add_context(s, c, args_text, context_result) ==
    IF whether_is_apply(s)
    THEN IF c.is_cons
         THEN insert(insert(context_result, "Env", c.first),
                     "Env-Args", c.rest)
         ELSE insert(context_result, "Function-Context", c.text)
    ELSE insert(context_result, "Arguments", args_text)

\* CldbRunEnv::add_function
add_function(s, name, context_result) ==
    IF whether_is_apply(s) THEN context_result
    ELSE IF name # "" THEN insert(context_result, "Function", name)
    ELSE context_result

\* the printed text of an argument list
RECURSIVE args_to_string(_, _)
args_to_string(args, i) ==
    IF i > Len(args) THEN ")"
    ELSE (IF i = 1 THEN "(" ELSE " ") \o args[i].text
         \o args_to_string(args, i + 1)

(***************************************************************************)
(* Step overrides: CldbRunnable::replace_step and its two implementations. *)
(* An Option<Result<RunStep, RunFailure>> is a record holding the step or  *)
(* the failure; a bespoke override is the behaviour a consumer registered  *)
(* under a function name.                                                  *)
(***************************************************************************)
NoStep == [some |-> FALSE, v |-> RunStep_Step]
SomeStep(x) == [some |-> TRUE, v |-> x]

\* clvm::sha256tree: a hash of the tree's content, not of its location
sha256tree(x) == <<"sha256tree", x.variant, x.text>>
\* Bytes::hex: the hash as the string the symbol table is keyed by
hex(h) == h[2] \o ":" \o h[3]

\* implementations of CldbSingleBespokeOverride a consumer can register: one
\* returning a fixed value, one counting its arguments, one failing
Override_const(v) == [does |-> "const", loc |-> "", v |-> v]
Override_count(l) == [does |-> "count", loc |-> l, v |-> Value("", NotNumber)]
Override_fail(l, v) == [does |-> "fail", loc |-> l, v |-> v]

\* CldbSingleBespokeOverride::get_override(env)
CldbSingleBespokeOverride_get_override(self, env) ==
    CASE self.does = "const" -> Ok(self.v)
      [] self.does = "count" -> Ok(SExp_Integer(self.loc, Len(env)))
      [] OTHER -> Err(RunFailure_RunErr(self.loc, self.v), "")

NoOverrides == [k \in {} |-> Override_const(Value("", NotNumber))]
CldbNoOverride_new ==
    [kind |-> "CldbNoOverride", symbol_table |-> EmptyMap,
     overrides |-> NoOverrides]
CldbOverrideBespokeCode_new(symbol_table, overrides) ==
    [kind |-> "CldbOverrideBespokeCode", symbol_table |-> symbol_table,
     overrides |-> overrides]

\* CldbOverrideBespokeCode::find_function_and_override_if_needed
find_function_and_override_if_needed(self, sexp, c, f, args, p) ==
    LET fun_hash == sha256tree(f)
        fun_hash_str == hex(fun_hash)
    IN  IF fun_hash_str \in DOMAIN self.symbol_table
        THEN LET funname == self.symbol_table[fun_hash_str]
             IN  IF funname \in DOMAIN self.overrides
                 THEN LET got == CldbSingleBespokeOverride_get_override(
                                     self.overrides[funname], args)
                      IN  IF IsOk(got)
                          THEN SomeStep(RunStep_OpResult(sexp.loc, got.val, p))
                          ELSE SomeStep(got.val)
                 ELSE NoStep
        ELSE NoStep

\* an override that is tried for every operator, not only for apply
CldbOverrideBespokeCode_replace_step_any_operator(self, s) ==
    IF s.kind = "Op" /\ ~s.pending
    THEN IF s.val.variant = "Integer"
         THEN IF Len(s.args) > 0
              THEN find_function_and_override_if_needed(
                       self, s.val, s.ctx, Head(s.args), Tail(s.args),
                       s.parent)
              ELSE NoStep
         ELSE NoStep
    ELSE NoStep

\* impl CldbRunnable for CldbOverrideBespokeCode: replace_step
CldbOverrideBespokeCode_replace_step(self, s) ==
    IF s.kind = "Op" /\ ~s.pending
    THEN IF s.val.variant = "Integer"
         THEN IF s.val.num = 2
              THEN IF Len(s.args) > 0
                   THEN find_function_and_override_if_needed(
                            self, s.val, s.ctx, Head(s.args), Tail(s.args),
                            s.parent)
                   ELSE NoStep
              ELSE NoStep
         ELSE NoStep
    ELSE NoStep

\* impl CldbRunnable for CldbNoOverride: replace_step
CldbNoOverride_replace_step(self, s) == NoStep

\* CldbRunEnv::get_override: the call through Box<dyn CldbRunnable>
CldbRunEnv_get_override(self, s) ==
    IF self.kind = "CldbNoOverride"
    THEN CldbNoOverride_replace_step(self, s)
    ELSE CldbOverrideBespokeCode_replace_step(self, s)

\* the steps, symbol tables and registered overrides replace_step is asked
\* about
Fun1 == SExp_Cons("f.clsp(1):1", "(+ 2 5)")
Fun2 == SExp_Cons("*hex*(2):3", "(* 2 5)")
Fun3 == SExp_Integer("f.clsp(1):1", 11)
OverrideOperators ==
    {SExp_Integer(l, 2) : l \in Locs}
    \cup {SExp_Integer("f.clsp(1):1", 11), SExp_Atom("f.clsp(1):1", "2", 2),
          SExp_Cons("f.clsp(1):1", "(2)")}
OverrideArgLists ==
    {<<>>, <<Fun1>>, <<Fun1, Value("2", 2), Value("11", 11)>>,
     <<Fun2, Value("x", NotNumber)>>, <<Fun3>>}
OverrideSteps ==
    {RunStep_Op(s, [is_cons |-> FALSE, text |-> "c", first |-> "", rest |-> ""],
                a, "f.clsp(1):1", v, "", p) :
        s \in OverrideOperators, a \in OverrideArgLists, v \in BOOLEAN,
        p \in Parents}
    \cup OpResults \cup Dones \cup {RunStep_Step}
SymbolTables ==
    {EmptyMap,
     (hex(sha256tree(Fun1)) :> "fun1") @@ (hex(sha256tree(Fun2)) :> "fun2")}
OverrideMaps ==
    {NoOverrides,
     "fun1" :> Override_const(Value("11", 11)),
     "fun1" :> Override_fail("*hex*(2):3", Value("bad", NotNumber)),
     ("fun1" :> Override_count("*hex*(2):3"))
         @@ ("other" :> Override_const(Value("2", 2)))}
Runnables ==
    {CldbNoOverride_new}
    \cup {CldbOverrideBespokeCode_new(t, o) :
              t \in SymbolTables, o \in OverrideMaps}
\* what run_step hands back when it is the one asked
RunStepOutcomes == {RunStep_Step} \cup Dones \cup RunErrs


VARIABLES
    step,             \* CldbRun.step: the stored RunStep
    ended,            \* CldbRun.ended
    final_result,     \* CldbRun.final_result
    to_print,         \* CldbRun.to_print: the pending row
    in_expr,          \* CldbRun.in_expr
    row,              \* CldbRun.row
    outputs_to_step,  \* CldbRun.outputs_to_step: number -> row of its result
    returned,         \* what the last call of step returned
    new_step          \* step's local new_step: what the last call computed

cldb_vars ==
    <<step, ended, final_result, to_print, in_expr, row, outputs_to_step,
      returned, new_step>>

\* CldbRun::new(runner, prim_map, env, step)
CldbRun_new ==
    /\ step = RunStep_Step
    /\ ended = FALSE
    /\ final_result = NoValue
    /\ to_print = EmptyMap
    /\ in_expr = FALSE
    /\ row = 0
    /\ outputs_to_step = EmptyMap
    /\ returned = NoMap
    /\ new_step = RunStep_Step

VARIABLES
    overrides,        \* CldbRunEnv.overrides: the Box<dyn CldbRunnable>
    replaced,         \* what env.get_override(&self.step) returned
    run_step_calls,   \* the number of calls of run_step made
    override_pc       \* position in the computation of new_step

override_vars == <<overrides, replaced, run_step_calls, override_pc>>

\* no override is being asked
Override_idle ==
    /\ overrides = CldbNoOverride_new
    /\ replaced = NoStep
    /\ run_step_calls = 0
    /\ override_pc = "get_override"

(***************************************************************************)
(* Dialect detection: KNOWN_DIALECTS, include_dialect and detect_modern    *)
(* over the arena's trees.                                                 *)
(***************************************************************************)
\* the printable characters, by code from FirstPrintable on (the grave accent
\* is written by its code point)
Printable ==
    <<
       " ", "!", "\"", "#", "$", "%", "&", "'", "(", ")", "*", "+",
       ",", "-", ".", "/", "0", "1", "2", "3", "4", "5", "6", "7",
       "8", "9", ":", ";", "<", "=", ">", "?", "@", "A", "B", "C",
       "D", "E", "F", "G", "H", "I", "J", "K", "L", "M", "N", "O",
       "P", "Q", "R", "S", "T", "U", "V", "W", "X", "Y", "Z", "[",
       "\\", "]", "^", "_", "<U+0060>", "a", "b", "c", "d", "e", "f", "g",
       "h", "i", "j", "k", "l", "m", "n", "o", "p", "q", "r", "s",
       "t", "u", "v", "w", "x", "y", "z", "{", "|", "}", "~"
    >>
FirstPrintable == 32
\* decode_string: String::from_utf8_lossy of the atom's bytes, one character
\* per printable byte and the replacement character otherwise
RECURSIVE decode_string(_)
decode_string(v) ==
    IF Len(v) = 0 THEN ""
    ELSE (IF Head(v) >= FirstPrintable
             /\ Head(v) < FirstPrintable + Len(Printable)
          THEN Printable[Head(v) - FirstPrintable + 1]
          ELSE "<U+FFFD>")
         \o decode_string(Tail(v))

\* Option<i32> and Option<AcceptedDialect>
NoStepping == [some |-> FALSE, v |-> 0]
SomeStepping(n) == [some |-> TRUE, v |-> n]
AcceptedDialect(stepping) == [stepping |-> stepping]
AcceptedDialect_default == AcceptedDialect(NoStepping)
NoDialect == [some |-> FALSE, v |-> AcceptedDialect_default]
SomeDialect(d) == [some |-> TRUE, v |-> d]

DialectDescription(accepted, content) ==
    [accepted |-> accepted, content |-> content]
KNOWN_DIALECTS ==
    ("*standard-cl-21*" :>
         DialectDescription(AcceptedDialect(SomeStepping(21)),
                            "((defconstant *chialisp-version* 21))"))
    @@ ("*standard-cl-22*" :>
         DialectDescription(AcceptedDialect(SomeStepping(22)),
                            "((defconstant *chialisp-version* 22))"))

\* "include".as_bytes()
include_bytes == <<105, 110, 99, 108, 117, 100, 101>>

\* an include that accepts any keyword in front of a known dialect name
include_dialect_any_keyword(e) ==
    LET include_keyword_sexp == e[1]
        name_sexp == e[2]
    IN  IF IsAtom(include_keyword_sexp) /\ IsAtom(name_sexp)
        THEN IF decode_string(buf(name_sexp)) \in DOMAIN KNOWN_DIALECTS
             THEN SomeDialect(
                      KNOWN_DIALECTS[decode_string(buf(name_sexp))].accepted)
             ELSE NoDialect
        ELSE NoDialect

\* include_dialect(allocator, e)
include_dialect(e) ==
    LET include_keyword_sexp == e[1]
        name_sexp == e[2]
    IN  IF IsAtom(include_keyword_sexp) /\ IsAtom(name_sexp)
        THEN IF buf(include_keyword_sexp) = include_bytes
             THEN IF decode_string(buf(name_sexp)) \in DOMAIN KNOWN_DIALECTS
                  THEN SomeDialect(
                           KNOWN_DIALECTS[decode_string(buf(name_sexp))]
                               .accepted)
                  ELSE NoDialect
             ELSE NoDialect
        ELSE NoDialect

RECURSIVE detect_modern(_)
RECURSIVE detect_modern_for(_, _)
\* detect_modern's loop over the elements l[i..]: the dialect found in an
\* element, else the element's own include, else the rest of the list
detect_modern_for(l, i) ==
    IF i > Len(l) THEN AcceptedDialect_default
    ELSE LET elt == l[i]
             detect_modern_result == detect_modern(elt)
         IN  IF detect_modern_result.stepping.some
             THEN detect_modern_result
             ELSE LET e == proper_list(elt, TRUE)
                  IN  IF ~e.some THEN detect_modern_for(l, i + 1)
                      ELSE IF Len(e.list) # 2
                      THEN detect_modern_for(l, i + 1)
                      ELSE IF include_dialect(e.list).some
                      THEN include_dialect(e.list).v
                      ELSE detect_modern_for(l, i + 1)

\* detect_modern(allocator, sexp)
detect_modern(sexp) ==
    LET l == proper_list(sexp, TRUE)
    IN  IF l.some THEN detect_modern_for(l.list, 1)
        ELSE AcceptedDialect_default

\* the atoms and forms detection is run on
INC == Atom(include_bytes)
CL21 == Atom(<<42, 115, 116, 97, 110, 100, 97, 114, 100, 45, 99, 108, 45, 50, 49, 42>>)
CL22 == Atom(<<42, 115, 116, 97, 110, 100, 97, 114, 100, 45, 99, 108, 45, 50, 50, 42>>)
CL23 == Atom(<<42, 115, 116, 97, 110, 100, 97, 114, 100, 45, 99, 108, 45, 50, 51, 42>>)
DialectAtoms == {INC, CL21, CL22, CL23, null, Atom(<<1>>)}
DialectElements ==
    { enlist(<<INC, CL21>>), enlist(<<INC, CL22>>), enlist(<<INC, CL23>>),
      enlist(<<CL21, INC>>), enlist(<<CL22, CL21>>), enlist(<<INC>>),
      enlist(<<INC, CL21, CL22>>),
      Pair(INC, CL21), Pair(INC, Pair(CL22, Atom(<<1>>))),
      enlist(<<INC, enlist(<<CL21>>)>>),
      enlist(<<enlist(<<INC, CL22>>)>>),
      enlist(<<Atom(<<1>>), enlist(<<null, enlist(<<INC, CL21>>)>>)>>),
      Pair(enlist(<<INC, CL22>>), Atom(<<1>>)),
      INC, null }
DialectPrograms ==
    {enlist(<<a, b>>) : a, b \in DialectAtoms}
    \cup DialectElements
    \cup {enlist(<<a>>) : a \in DialectElements}
    \cup {enlist(<<a, b>>) : a, b \in DialectElements}
    \cup {enlist(<<a, b, c>>) : a, b, c \in DialectElements}
    \cup {Pair(a, Pair(b, Atom(<<1>>))) : a, b \in DialectElements}

VARIABLES
    dialect_sexp,     \* the program detect_modern is called with
    dialect_result    \* detect_modern's result, once it returned

dialect_vars == <<dialect_sexp, dialect_result>>

\* detect_modern has not been called
Dialect_idle ==
    /\ dialect_sexp = null
    /\ dialect_result = NoDialect

(***************************************************************************)
(* DoOptProg::op running the fixed-point driver, one step per action.      *)
(***************************************************************************)
VARIABLES
    operands,   \* the operand list DoOptProg::op was called with
    pc,         \* position in op / optimize_sexp_
    r,          \* optimize_sexp_'s current tree
    start_r,    \* the tree at the start of the current pass
    idx,        \* index (1..8) in OPTIMIZERS of the rule to invoke next
    response,   \* the Result returned, meaningful once pc = "done"
    cost        \* the cost of the returned Reduction

opt_vars == <<operands, pc, r, start_r, idx, response, cost>>
vars == <<opt_vars, cldb_vars, override_vars, dialect_vars>>

Init ==
    /\ operands \in OperandLists
    /\ pc = "op"
    /\ r = null
    /\ start_r = null
    /\ idx = 0
    /\ response = Ok(null)
    /\ cost = 0
    /\ CldbRun_new
    /\ Override_idle
    /\ Dialect_idle

\* an adapter that optimizes the operand list itself
OpFirst_whole_operand_list ==
    /\ pc = "op"
    /\ r' = operands
    /\ pc' = "entry"
    /\ UNCHANGED <<operands, start_r, idx, response, cost>>
    /\ UNCHANGED <<cldb_vars, override_vars, dialect_vars>>

\* r_first <- first(allocator, r)
OpFirst ==
    /\ pc = "op"
    /\ LET r_first == first(operands)
       IN  IF IsOk(r_first)
           THEN /\ r' = r_first.val
                /\ pc' = "entry"
                /\ UNCHANGED response
           ELSE /\ response' = r_first
                /\ pc' = "done"
                /\ UNCHANGED r
    /\ UNCHANGED <<operands, start_r, idx, cost>>
    /\ UNCHANGED <<cldb_vars, override_vars, dialect_vars>>

\* optimize_sexp_ entry: an atom is returned at once
Entry ==
    /\ pc = "entry"
    /\ IF IsAtom(r)
       THEN /\ response' = Ok(r)
            /\ cost' = 1
            /\ pc' = "done"
       ELSE /\ pc' = "while"
            /\ UNCHANGED <<response, cost>>
    /\ UNCHANGED <<operands, r, start_r, idx>>
    /\ UNCHANGED <<cldb_vars, override_vars, dialect_vars>>

\* a loop that runs while the current tree is a pair, nil-terminated or not
While_any_pair ==
    /\ pc = "while"
    /\ IF IsPair(r)
       THEN /\ start_r' = r
            /\ idx' = 1
            /\ pc' = "for"
            /\ UNCHANGED <<response, cost>>
       ELSE /\ response' = Ok(r)
            /\ cost' = 1
            /\ pc' = "done"
            /\ UNCHANGED <<start_r, idx>>
    /\ UNCHANGED <<operands, r>>
    /\ UNCHANGED <<cldb_vars, override_vars, dialect_vars>>

\* the while condition; on exit, the final return Ok(r)
While ==
    /\ pc = "while"
    /\ IF proper_list(r, FALSE).some
       THEN /\ start_r' = r
            /\ idx' = 1
            /\ pc' = "for"
            /\ UNCHANGED <<response, cost>>
       ELSE /\ response' = Ok(r)
            /\ cost' = 1
            /\ pc' = "done"
            /\ UNCHANGED <<start_r, idx>>
    /\ UNCHANGED <<operands, r>>
    /\ UNCHANGED <<cldb_vars, override_vars, dialect_vars>>

\* one iteration of the for loop: invoke OPTIMIZERS[idx - 1]
InvokeRule ==
    /\ pc = "for"
    /\ LET res == invoke(idx, r, MaxOptFuel)
       IN  IF ~IsOk(res)
           THEN /\ response' = res
                /\ pc' = "done"
                /\ UNCHANGED <<r, idx>>
           ELSE IF ~equal_to(r, res.val)
           THEN /\ r' = res.val
                /\ pc' = "pass_end"
                /\ UNCHANGED <<response, idx>>
           ELSE /\ IF idx < Len(OPTIMIZERS)
                   THEN idx' = idx + 1 /\ pc' = "for"
                   ELSE idx' = idx /\ pc' = "pass_end"
                /\ UNCHANGED <<response, r>>
    /\ UNCHANGED <<operands, start_r, cost>>
    /\ UNCHANGED <<cldb_vars, override_vars, dialect_vars>>

\* a driver that returns after its first pass, changed or not
PassEnd_returns_after_one_pass ==
    /\ pc = "pass_end"
    /\ response' = Ok(r)
    /\ cost' = 1
    /\ pc' = "done"
    /\ UNCHANGED <<operands, r, start_r, idx>>
    /\ UNCHANGED <<cldb_vars, override_vars, dialect_vars>>

\* after the for loop: return when the pass left the tree unchanged
PassEnd ==
    /\ pc = "pass_end"
    /\ IF equal_to(start_r, r)
       THEN /\ response' = Ok(r)
            /\ cost' = 1
            /\ pc' = "done"
       ELSE /\ pc' = "while"
            /\ UNCHANGED <<response, cost>>
    /\ UNCHANGED <<operands, r, start_r, idx>>
    /\ UNCHANGED <<cldb_vars, override_vars, dialect_vars>>

Next == OpFirst \/ Entry \/ While \/ InvokeRule \/ PassEnd

Spec == Init /\ [][Next]_vars

\* Every action is enabled by its pc alone and changes pc or idx, so
\* ENABLED <<Next>>_vars is pc # "done".  Progress is WF_vars(Next) with that
\* predicate written out: the driver is a sequential loop that takes its next
\* step whenever it has one.
Progress == []<>(pc = "done") \/ []<><<Next>>_vars

FairSpec == Spec /\ Progress

TypeOK ==
    /\ pc \in {"op", "entry", "while", "for", "pass_end", "done"}
    /\ idx \in 0..8
    /\ cost \in {0, 1}
    /\ response.tag \in {"Ok", "Err", "Fuel"}

\* no optimisation of the model is cut by MaxOptFuel or MaxEvalFuel
FuelNeverRunsOut == response.tag # "Fuel"

\* the program handed to optimize_sexp
Program == Left(operands)
Returned == pc = "done" /\ IsPair(operands)

\* the stepwise driver and the function optimize_sexp agree
DriverIsOptimizeSexp == Returned => response = optimize_sexp(Program)
(***************************************************************************)
(* CldbRun::step, one action per arm of its match on the new step.  The    *)
(* new step is what the environment's override or run_step hands back,     *)
(* here any step or failure.  MaxRow bounds the number of rows emitted.    *)
(***************************************************************************)
\* no optimizer call is in progress while the debugger steps
DoOptProg_idle ==
    /\ operands = null
    /\ pc = "op"
    /\ r = null
    /\ start_r = null
    /\ idx = 0
    /\ response = Ok(null)
    /\ cost = 0

CldbInit ==
    DoOptProg_idle /\ CldbRun_new /\ Override_idle /\ Dialect_idle

\* an OpResult arm that emits its row whether or not an operator is pending
StepOpResult_always_emits ==
    /\ row < MaxRow
    /\ \E computed \in OpResults :
          /\ LET result ==
                     insert(insert(insert(to_print,
                         "Result-Location", computed.loc),
                         "Value", computed.val.text),
                         "Row", ToString(row))
             IN  /\ outputs_to_step' =
                        IF computed.val.num # NotNumber
                        THEN insert(outputs_to_step, computed.val.num, row)
                        ELSE outputs_to_step
                 /\ in_expr' = FALSE
                 /\ to_print' = EmptyMap
                 /\ returned' = SomeMap(result)
                 /\ row' = row + 1
          /\ step' = computed
          /\ new_step' = computed
    /\ UNCHANGED <<ended, final_result>>
    /\ UNCHANGED <<opt_vars, override_vars, dialect_vars>>

\* Ok(RunStep::OpResult(l, x, _p))
StepOpResult ==
    /\ row < MaxRow
    /\ \E computed \in OpResults :
          /\ IF in_expr
             THEN LET result ==
                          insert(insert(insert(to_print,
                              "Result-Location", computed.loc),
                              "Value", computed.val.text),
                              "Row", ToString(row))
                  IN  /\ outputs_to_step' =
                             IF computed.val.num # NotNumber
                             THEN insert(outputs_to_step, computed.val.num, row)
                             ELSE outputs_to_step
                      /\ in_expr' = FALSE
                      /\ to_print' = EmptyMap
                      /\ returned' = SomeMap(result)
                      /\ row' = row + 1
             ELSE /\ returned' = NoMap
                  /\ UNCHANGED <<outputs_to_step, in_expr, to_print, row>>
          /\ step' = computed
          /\ new_step' = computed
    /\ UNCHANGED <<ended, final_result>>
    /\ UNCHANGED <<opt_vars, override_vars, dialect_vars>>

\* an end of run that leaves final_result as it was
StepDone_without_result ==
    /\ row < MaxRow
    /\ \E computed \in Dones :
          LET result ==
                  insert(insert(to_print, "Final-Location", computed.loc),
                         "Final", computed.val.text)
          IN  /\ ended' = TRUE
              /\ to_print' = EmptyMap
              /\ returned' = SomeMap(result)
              /\ row' = row + 1
              /\ step' = computed
              /\ new_step' = computed
    /\ UNCHANGED <<final_result, in_expr, outputs_to_step>>
    /\ UNCHANGED <<opt_vars, override_vars, dialect_vars>>

\* Ok(RunStep::Done(l, x))
StepDone ==
    /\ row < MaxRow
    /\ \E computed \in Dones :
          LET result ==
                  insert(insert(to_print, "Final-Location", computed.loc),
                         "Final", computed.val.text)
          IN  /\ ended' = TRUE
              /\ final_result' = SomeValue(computed.val)
              /\ to_print' = EmptyMap
              /\ returned' = SomeMap(result)
              /\ row' = row + 1
              /\ step' = computed
              /\ new_step' = computed
    /\ UNCHANGED <<in_expr, outputs_to_step>>
    /\ UNCHANGED <<opt_vars, override_vars, dialect_vars>>

\* Ok(RunStep::Step(_sexp, _c, _p))
StepStep ==
    /\ row < MaxRow
    /\ step' = RunStep_Step
    /\ new_step' = RunStep_Step
    /\ returned' = NoMap
    /\ UNCHANGED <<ended, final_result, to_print, in_expr, row, outputs_to_step>>
    /\ UNCHANGED <<opt_vars, override_vars, dialect_vars>>

\* Ok(RunStep::Op(sexp, c, a, None, _p))
StepOp ==
    /\ row < MaxRow
    /\ \E computed \in OpsNone :
          LET sexp == computed.val
              a == computed.args
              located ==
                  insert(insert(to_print, "Operator-Location", computed.loc),
                         "Operator", sexp.text)
              with_refs ==
                  IF sexp.num = 11
                  THEN insert(located, "Argument-Refs",
                           format_arg_inputs(
                               get_arg_associations(outputs_to_step, a, 1), 1))
                  ELSE located
              with_context ==
                  add_context(sexp, computed.ctx, args_to_string(a, 1), with_refs)
          IN  /\ to_print' = add_function(sexp, computed.name, with_context)
              /\ in_expr' = TRUE
              /\ returned' = NoMap
              /\ step' = computed
              /\ new_step' = computed
    /\ UNCHANGED <<ended, final_result, row, outputs_to_step>>
    /\ UNCHANGED <<opt_vars, override_vars, dialect_vars>>

\* Ok(RunStep::Op(_sexp, _c, _a, Some(_v), _p))
StepOpPending ==
    /\ row < MaxRow
    /\ \E computed \in OpsSome :
          /\ step' = computed
          /\ new_step' = computed
          /\ returned' = NoMap
    /\ UNCHANGED <<ended, final_result, to_print, in_expr, row, outputs_to_step>>
    /\ UNCHANGED <<opt_vars, override_vars, dialect_vars>>

\* Err(RunFailure::RunExn(l, s)); the stored step is kept
StepRunExn ==
    /\ row < MaxRow
    /\ \E failure \in RunExns :
          LET result ==
                  insert(insert(to_print, "Throw-Location", failure.loc),
                         "Throw", failure.val.text)
          IN  /\ to_print' = EmptyMap
              /\ ended' = TRUE
              /\ returned' = SomeMap(result)
              /\ row' = row + 1
              /\ new_step' = failure
    /\ UNCHANGED <<step, final_result, in_expr, outputs_to_step>>
    /\ UNCHANGED <<opt_vars, override_vars, dialect_vars>>

\* a RunErr arm that files the failure under the keys of a RunExn
StepRunErr_as_throw ==
    /\ row < MaxRow
    /\ \E failure \in RunErrs :
          LET result ==
                  insert(insert(to_print, "Throw-Location", failure.loc),
                         "Throw", failure.val.text)
          IN  /\ to_print' = EmptyMap
              /\ ended' = TRUE
              /\ returned' = SomeMap(result)
              /\ row' = row + 1
              /\ new_step' = failure
    /\ UNCHANGED <<step, final_result, in_expr, outputs_to_step>>
    /\ UNCHANGED <<opt_vars, override_vars, dialect_vars>>

\* Err(RunFailure::RunErr(l, s)); the stored step is kept
StepRunErr ==
    /\ row < MaxRow
    /\ \E failure \in RunErrs :
          LET result ==
                  insert(insert(to_print, "Failure-Location", failure.loc),
                         "Failure", failure.val.text)
          IN  /\ to_print' = EmptyMap
              /\ ended' = TRUE
              /\ returned' = SomeMap(result)
              /\ row' = row + 1
              /\ new_step' = failure
    /\ UNCHANGED <<step, final_result, in_expr, outputs_to_step>>
    /\ UNCHANGED <<opt_vars, override_vars, dialect_vars>>

CldbNext ==
    \/ StepOpResult
    \/ StepDone
    \/ StepStep
    \/ StepOp
    \/ StepOpPending
    \/ StepRunExn
    \/ StepRunErr

CldbSpec == CldbInit /\ [][CldbNext]_vars

CldbTypeOK ==
    /\ ended \in BOOLEAN
    /\ in_expr \in BOOLEAN
    /\ row \in 0..MaxRow
    /\ final_result.some \in BOOLEAN
    /\ returned.some \in BOOLEAN
    /\ step.kind \in {"Done", "OpResult", "Op", "Step"}

(***************************************************************************)
(* The computation of new_step at the head of CldbRun::step: the           *)
(* environment is asked for an override of the stored step, and run_step   *)
(* is called when it has none.  The stored step and the environment's      *)
(* overrides are any of OverrideSteps and Runnables.                       *)
(***************************************************************************)
OverrideInit ==
    /\ DoOptProg_idle
    /\ Dialect_idle
    /\ step \in OverrideSteps
    /\ ended = FALSE
    /\ final_result = NoValue
    /\ to_print = EmptyMap
    /\ in_expr = FALSE
    /\ row = 0
    /\ outputs_to_step = EmptyMap
    /\ returned = NoMap
    /\ new_step = RunStep_Step
    /\ overrides \in Runnables
    /\ replaced = NoStep
    /\ run_step_calls = 0
    /\ override_pc = "get_override"

\* self.env.get_override(&self.step)
GetOverride ==
    /\ override_pc = "get_override"
    /\ replaced' = CldbRunEnv_get_override(overrides, step)
    /\ override_pc' = "match"
    /\ UNCHANGED <<overrides, run_step_calls>>
    /\ UNCHANGED <<opt_vars, cldb_vars, dialect_vars>>

\* Some(v) => v
UseOverride ==
    /\ override_pc = "match"
    /\ replaced.some
    /\ new_step' = replaced.v
    /\ override_pc' = "computed"
    /\ UNCHANGED <<overrides, replaced, run_step_calls>>
    /\ UNCHANGED <<step, ended, final_result, to_print, in_expr, row,
                   outputs_to_step, returned>>
    /\ UNCHANGED <<opt_vars, dialect_vars>>

\* _ => run_step(allocator, runner, prim_map, &self.step)
UseRunStep ==
    /\ override_pc = "match"
    /\ ~replaced.some
    /\ \E computed \in RunStepOutcomes : new_step' = computed
    /\ run_step_calls' = run_step_calls + 1
    /\ override_pc' = "computed"
    /\ UNCHANGED <<overrides, replaced>>
    /\ UNCHANGED <<step, ended, final_result, to_print, in_expr, row,
                   outputs_to_step, returned>>
    /\ UNCHANGED <<opt_vars, dialect_vars>>

OverrideNext == GetOverride \/ UseOverride \/ UseRunStep

OverrideSpec == OverrideInit /\ [][OverrideNext]_vars

(***************************************************************************)
(* detect_modern called once on any of DialectPrograms.                    *)
(***************************************************************************)
DialectInit ==
    /\ DoOptProg_idle
    /\ CldbRun_new
    /\ Override_idle
    /\ dialect_sexp \in DialectPrograms
    /\ dialect_result = NoDialect

\* dialect_result <- detect_modern(allocator, dialect_sexp)
DetectModern ==
    /\ ~dialect_result.some
    /\ dialect_result' = SomeDialect(detect_modern(dialect_sexp))
    /\ UNCHANGED dialect_sexp
    /\ UNCHANGED <<opt_vars, cldb_vars, override_vars>>

DialectNext == DetectModern

DialectSpec == DialectInit /\ [][DialectNext]_vars

(***************************************************************************)
(* Properties of the optimizer.                                            *)
(***************************************************************************)

\* running t and u on environment e: both fail, or both succeed with equal
\* results (an evaluation cut by MaxEvalFuel decides nothing)
ApplyEquivalent(t, u, e) ==
    LET a == run_program(t, e)
        b == run_program(u, e)
    IN  \/ a.tag = "Fuel"
        \/ b.tag = "Fuel"
        \/ (IsErr(a) /\ IsErr(b))
        \/ (IsOk(a) /\ IsOk(b) /\ a.val = b.val)

\* C1: apply-equivalence.  Whenever optimize_sexp has returned a tree for
\* program T, then on every argument environment E, running T and running
\* the returned tree either both fail or both succeed with equal results.
C1_ApplyEquivalence ==
    (Returned /\ IsOk(response)) =>
        \A e \in Environments : ApplyEquivalent(Program, response.val, e)

\* C2: idempotence.  Whenever optimize_sexp has returned a tree for program T,
\* optimize_sexp of that returned tree succeeds and returns the same tree.
C2_Idempotent ==
    (Returned /\ IsOk(response)) =>
        optimize_sexp(response.val) = Ok(response.val)

\* a run that rewrote its program into a nil-terminated list, which a second
\* optimize_sexp takes through the rules again
C2_Witness ==
    /\ Returned
    /\ IsOk(response)
    /\ response.val # Program
    /\ IsPair(response.val)
    /\ proper_list(response.val, FALSE).some

\* C3: termination.  Every run of the driver, with all the optimize_sexp
\* calls its rules make, reaches its return with a result or an error.
C3_Terminates == <>(pc = "done" /\ response.tag \in {"Ok", "Err"})

\* a run that went through the reindexing rule with recursive optimize_sexp
\* calls on the operands, and returned
C3_Witness ==
    /\ Returned
    /\ IsOk(response)
    /\ LET m == match_sexp(var_change_optimizer_cons_eval_pattern, Program,
                           NoBindings)
       IN  /\ m.ok
           /\ ~is_args_call(m.b[N_args])
           /\ ~seems_constant(Program)
           /\ IsPair(m.b[N_args])
    /\ response.val # Program

\* C4: whenever optimize_sexp has returned a tree, each of the eight rules
\* applied to that tree returns it unchanged.
C4_FixedPointOfAllRules ==
    (Returned /\ IsOk(response)) =>
        \A i \in 1..Len(OPTIMIZERS) :
            invoke(i, response.val, MaxOptFuel) = Ok(response.val)

RECURSIVE FirstFailure(_, _)
\* the index of the first element of list, from i on, whose optimize_sexp
\* does not succeed; 0 when there is none
FirstFailure(list, i) ==
    IF i > Len(list) THEN 0
    ELSE IF ~IsOk(optimize_sexp(list[i])) THEN i
    ELSE FirstFailure(list, i + 1)

\* the constant fold of t calls the evaluator and the evaluator fails
FoldFails(t) == seems_constant(t) /\ non_nil(t) /\ IsErr(run_program(t, null))

\* C5: fail-fast error propagation.  In every step that invokes a rule: when
\* the rule is the constant fold and the evaluator fails on the current tree,
\* the rule returns the evaluator's error; when the rule is the children rule
\* or the reindexing rule and optimize_sexp fails on one of the elements it
\* optimizes, the rule returns the error of the first such element; and when
\* the invoked rule returns an error, the step ends the run with that same
\* error as the response, no Reduction, and the tree untouched.
C5_FailFast ==
    [][ pc = "for" =>
          LET res == invoke(idx, r, MaxOptFuel)
              kids == proper_list(r, TRUE)
              m == match_sexp(var_change_optimizer_cons_eval_pattern, r,
                              NoBindings)
              moved == sub_args(m.b[N_sexp], m.b[N_args])
              ops == proper_list(moved, TRUE)
          IN  /\ (OPTIMIZERS[idx] = "constant_optimizer" /\ FoldFails(r))
                    => res = run_program(r, null)
              /\ ( /\ OPTIMIZERS[idx] = "children_optimizer"
                   /\ kids.some
                   /\ Len(kids.list) > 0
                   /\ kids.list[1] # Q
                   /\ FirstFailure(kids.list, 1) # 0 )
                    => res = optimize_sexp(kids.list[FirstFailure(kids.list, 1)])
              /\ ( /\ OPTIMIZERS[idx] = "var_change_optimizer_cons_eval"
                   /\ m.ok
                   /\ ~seems_constant(moved)
                   /\ ops.some
                   /\ FirstFailure(ops.list, 1) # 0 )
                    => res = optimize_sexp(ops.list[FirstFailure(ops.list, 1)])
              /\ IsErr(res)
                    => /\ pc' = "done"
                       /\ response' = res
                       /\ cost' = 0
                       /\ r' = r
      ]_vars

\* a run ended by an evaluator error that reached the driver through the
\* children rule, from a recursive optimize_sexp call
C5_Witness ==
    /\ pc = "done"
    /\ IsErr(response)
    /\ idx > 0
    /\ OPTIMIZERS[idx] = "children_optimizer"
    /\ cost = 0

\* C6: operator adapter.  Once DoOptProg::op has returned: for an operand
\* list with first element P, the response is the result of optimize_sexp(P),
\* with cost 1 when that is a tree and no Reduction when it is an error; for
\* an operand list with no first element the response is an error.
C6_OperatorAdapter ==
    pc = "done" =>
        IF IsPair(operands)
        THEN /\ response = optimize_sexp(Left(operands))
             /\ IsOk(response) => cost = 1
             /\ IsErr(response) => cost = 0
        ELSE IsErr(response) /\ cost = 0

\* the adapter returned a tree that differs from the program it was given
C6_Witness ==
    /\ pc = "done"
    /\ IsPair(operands)
    /\ IsOk(response)
    /\ response.val # Left(operands)
    /\ IsPair(response.val)
    /\ cost = 1

\* t is a three-element list (a (q . SEXP) ARGS)
IsApplyQuoteForm(t) ==
    /\ IsPair(t)
    /\ Left(t) = A
    /\ IsPair(Right(t))
    /\ IsPair(Left(Right(t)))
    /\ Left(Left(Right(t))) = Q
    /\ IsPair(Right(Right(t)))
    /\ Right(Right(Right(t))) = null
SexpOf(t) == Right(Left(Right(t)))
ArgsOf(t) == Left(Right(Right(t)))

\* C7: apply-quote elimination.  For the driver's current tree t:
\* cons_q_a_optimizer returns SEXP when t is (a (q . SEXP) ARGS) with ARGS the
\* atom of the single byte 1, and returns t itself in every other case.
C7_ApplyQuoteElimination ==
    cons_q_a_optimizer(r) =
        IF IsApplyQuoteForm(r) /\ ArgsOf(r) = Atom(<<1>>)
        THEN Ok(SexpOf(r))
        ELSE Ok(r)

\* the driver has just accepted the rewrite of (a (q . SEXP) 1) into SEXP
C7_Witness ==
    /\ pc = "pass_end"
    /\ OPTIMIZERS[idx] = "cons_q_a_optimizer"
    /\ IsApplyQuoteForm(start_r)
    /\ ArgsOf(start_r) = Atom(<<1>>)
    /\ r = SexpOf(start_r)

\* an evaluator that fails whenever it is called
poisoned_runner == "poisoned"

\* C8: constant folding.  For the driver's current tree N: when
\* seems_constant(N) holds and N is not nil, constant_optimizer returns
\* (q . V) with V the evaluator's result of running N on the nil environment
\* (the evaluator's error when it has none); in every other case it returns N,
\* also when handed an evaluator that fails on every call.
C8_ConstantFolding ==
    IF seems_constant(r) /\ r # null
    THEN LET v == run_program(r, null)
         IN  IF IsOk(v)
             THEN constant_optimizer(r, "eval_f") = Ok(Pair(Atom(<<1>>), v.val))
             ELSE constant_optimizer(r, "eval_f") = v
    ELSE /\ constant_optimizer(r, "eval_f") = Ok(r)
         /\ constant_optimizer(r, poisoned_runner) = Ok(r)

\* the driver has just accepted a fold of a list that was not yet a quote
C8_Witness ==
    /\ pc = "pass_end"
    /\ OPTIMIZERS[idx] = "constant_optimizer"
    /\ seems_constant(start_r)
    /\ Left(start_r) # Q
    /\ IsOk(run_program(start_r, null))
    /\ r = Pair(Q, run_program(start_r, null).val)

\* C9: children rule.  For the driver's current tree t: when t is a
\* nil-terminated, non-empty list whose head is not the atom of the single
\* byte 1 and optimize_sexp succeeds on every element, children_optimizer
\* returns the list of the same length whose i-th element is optimize_sexp of
\* t's i-th element (and no tree when optimize_sexp fails on an element); when
\* t is quote-headed, empty, or no nil-terminated list, it returns t.
C9_ChildrenRule ==
    LET pl == proper_list(r, TRUE)
        n == Len(pl.list)
        res == children_optimizer(r, MaxOptFuel)
    IN  IF pl.some /\ n > 0 /\ pl.list[1] # Atom(<<1>>)
        THEN IF \A i \in 1..n : IsOk(optimize_sexp(pl.list[i]))
             THEN /\ IsOk(res)
                  /\ proper_list(res.val, TRUE).some
                  /\ proper_list(res.val, TRUE).list =
                        [i \in 1..n |-> optimize_sexp(pl.list[i]).val]
             ELSE ~IsOk(res)
        ELSE res = Ok(r)

\* the driver has just accepted a rewrite by the children rule
C9_Witness ==
    /\ pc = "pass_end"
    /\ OPTIMIZERS[idx] = "children_optimizer"
    /\ r # start_r
    /\ \E i \in 1..Len(proper_list(start_r, TRUE).list) :
           proper_list(r, TRUE).list[i] # proper_list(start_r, TRUE).list[i]

\* the order in which the rules are said to be tried
RuleOrder ==
    << "cons_optimizer", "constant_optimizer", "cons_q_a_optimizer",
       "var_change_optimizer_cons_eval", "children_optimizer",
       "path_optimizer", "quote_null_optimizer", "apply_null_optimizer" >>

\* C10: driver rule priority.  Every pass starts at the first rule.  When rule
\* number idx of the order cons, constant fold, apply-quote elimination,
\* reindexing, children, path compaction, quote-nil, apply-nil is invoked,
\* every earlier rule of that order returns the current tree unchanged; a
\* result that differs from the current tree becomes the current tree and
\* ends the pass with no further rule invoked; an equal result moves on to the
\* next rule (or ends the pass after the eighth); and after a pass that
\* changed the tree the loop condition is tested again.
C10_RulePriority ==
    [][ /\ (pc = "while" /\ pc' = "for") => (idx' = 1 /\ start_r' = r)
        /\ pc = "for" =>
             LET res == to_run(RuleOrder[idx], r, MaxOptFuel)
             IN  /\ \A j \in 1..(idx - 1) :
                        to_run(RuleOrder[j], r, MaxOptFuel) = Ok(r)
                 /\ (IsOk(res) /\ res.val # r)
                        => (r' = res.val /\ pc' = "pass_end" /\ idx' = idx)
                 /\ (IsOk(res) /\ res.val = r)
                        => /\ r' = r
                           /\ IF idx < Len(RuleOrder)
                              THEN idx' = idx + 1 /\ pc' = "for"
                              ELSE pc' = "pass_end"
        /\ (pc = "pass_end" /\ r # start_r) => (pc' = "while" /\ r' = r)
      ]_vars

\* a later pass: the first rule is about to be invoked on a tree that an
\* earlier pass rewrote
C10_Witness ==
    /\ pc = "for"
    /\ idx = 1
    /\ IsPair(operands)
    /\ r # Left(operands)
    /\ start_r = r

\* S with every reference to the environment replaced by the path expression
\* into args: an atom is a reference, a quoted value holds none, and an
\* operator application keeps its operator and has its operands replaced
RECURSIVE Reindexed(_, _)
Reindexed(s, args) ==
    IF IsAtom(s) THEN path_from_args(s, args)
    ELSE IF Left(s) = Q THEN s
    ELSE LET l == proper_list(s, TRUE)
         IN  IF ~l.some THEN s
             ELSE enlist(<<IF IsAtom(l.list[1]) THEN l.list[1]
                            ELSE Reindexed(l.list[1], args)>>
                         \o [i \in 1..(Len(l.list) - 1) |->
                                Reindexed(l.list[i + 1], args)])

\* t is (a (q . (op S1 ... Sn)) ARGS) with op an atom other than quote and
\* ARGS not the bare environment reference
IsReindexable(t) ==
    /\ IsApplyQuoteForm(t)
    /\ ~is_args_call(ArgsOf(t))
    /\ IsPair(SexpOf(t))
    /\ IsAtom(Left(SexpOf(t)))
    /\ Left(SexpOf(t)) # Q
    /\ proper_list(SexpOf(t), FALSE).some

\* C11: reindexing output shape.  When the driver's current tree is
\* (a (q . (op S1 ... Sn)) ARGS) with op an atom and ARGS not the atom 1, the
\* tree sub_args builds from the body and ARGS is the list of op followed by
\* exactly n operands, the i-th being Si with its environment references
\* replaced by path expressions into ARGS.
C11_ReindexingShape ==
    IsReindexable(r) =>
        LET body == proper_list(SexpOf(r), TRUE).list
            built == proper_list(sub_args(SexpOf(r), ArgsOf(r)), TRUE)
        IN  /\ built.some
            /\ Len(built.list) = Len(body)
            /\ built.list[1] = body[1]
            /\ \A i \in 2..Len(body) :
                   built.list[i] = Reindexed(body[i], ArgsOf(r))

\* the tree the reindexing rule builds from (a (q . SEXP) ARGS), and the
\* results of optimizing its elements
Rewritten(t) == sub_args(SexpOf(t), ArgsOf(t))
OptOperands(t) ==
    mapM_optimize(proper_list(Rewritten(t), TRUE).list, 1, MaxOptFuel)

\* the reindexing rule reaches its count on t: t matches, the rewritten body
\* is not constant, it is a nil-terminated list, and every element optimizes
ReindexingCounts(t) ==
    /\ IsApplyQuoteForm(t)
    /\ ~seems_constant(Rewritten(t))
    /\ proper_list(Rewritten(t), TRUE).some
    /\ OptOperands(t).ok

\* C12: reindexing acceptance.  When the rule reaches its count on the
\* driver's current tree, it returns the list of optimized operands if at
\* most one of them is counted non-constant, and the tree itself if more than
\* one is (the count being the one the rule's fold computes).
C12_ReindexingAcceptance ==
    ReindexingCounts(r) =>
        var_change_optimizer_cons_eval(r, MaxOptFuel) =
            IF non_constant_count(OptOperands(r).list, 1) <= 1
            THEN Ok(enlist(OptOperands(r).list))
            ELSE Ok(r)

C14_CountAsStated ==
    ReindexingCounts(r) =>
        \A i \in 1..Len(OptOperands(r).list) :
            LET v == OptOperands(r).list[i]
            IN  (non_constant_step(v) = 0) <=>
                    (v = null \/ (IsPair(v) /\ Left(v) = Q))

\* C14, amended: an optimized operand is counted as constant exactly when it
\* is an atom (nil or not), a pair headed by the atom of the single byte 1,
\* or a pair headed by a pair that is not a nil-terminated list; every other
\* pair is counted as non-constant.
C14_OperandCount ==
    ReindexingCounts(r) =>
        \A i \in 1..Len(OptOperands(r).list) :
            LET v == OptOperands(r).list[i]
            IN  (non_constant_step(v) = 0) <=>
                    \/ IsAtom(v)
                    \/ IsPair(v) /\ Left(v) = Q
                    \/ IsPair(v) /\ IsPair(Left(v))
                         /\ ~proper_list(v, FALSE).some

\* the rule has just accepted a rewrite whose operands include a path atom,
\* counted as constant
C14_Witness ==
    /\ pc = "pass_end"
    /\ OPTIMIZERS[idx] = "var_change_optimizer_cons_eval"
    /\ ReindexingCounts(start_r)
    /\ r = enlist(OptOperands(start_r).list)
    /\ \E i \in 1..Len(OptOperands(start_r).list) :
           /\ IsAtom(OptOperands(start_r).list[i])
           /\ non_nil(OptOperands(start_r).list[i])

\* the decision procedure as stated, on the list of operands instead of the
\* tail loop
RECURSIVE ConstantShape(_)
ConstantShape(n) ==
    IF IsAtom(n) THEN n = null
    ELSE \/ Left(n) = Atom(<<1>>)
         \/ /\ Left(n) # Atom(<<8>>)
            /\ IsPair(Left(n)) => ConstantShape(Left(n))
            /\ proper_list(Right(n), TRUE).some
            /\ \A i \in 1..Len(proper_list(Right(n), TRUE).list) :
                   ConstantShape(proper_list(Right(n), TRUE).list[i])

\* C15: seems_constant decision procedure.  On the driver's current tree and
\* on the tree the pass started from, seems_constant is true exactly for the
\* nil atom, a pair headed by the atom of the single byte 1, and a pair whose
\* operator is not the atom of the single byte 8, is constant itself when it
\* is a pair, and whose operands form a nil-terminated list of constant
\* elements.
C15_SeemsConstant ==
    /\ seems_constant(r) <=> ConstantShape(r)
    /\ seems_constant(start_r) <=> ConstantShape(start_r)

\* the driver holds an operator application whose operand tail ends in a
\* non-nil atom, which seems_constant rejects
C15_Witness ==
    /\ pc = "entry"
    /\ IsPair(r)
    /\ Left(r) \notin {Atom(<<1>>), Atom(<<8>>)}
    /\ IsAtom(Right(r))
    /\ non_nil(Right(r))
    /\ ~seems_constant(r)

\* t is the two-element list (op (c A B)), the inner list having exactly the
\* three elements c, A and B
IsOpOfCons(t, op) ==
    /\ IsPair(t)
    /\ Left(t) = op
    /\ IsPair(Right(t))
    /\ Right(Right(t)) = null
    /\ LET inner == proper_list(Left(Right(t)), TRUE)
       IN  inner.some /\ Len(inner.list) = 3 /\ inner.list[1] = C
ConsFirst(t) == Left(Right(Left(Right(t))))
ConsRest(t) == Left(Right(Right(Left(Right(t)))))

\* C16: cons cancellation.  For the driver's current tree t: cons_optimizer
\* returns A when t is (f (c A B)), B when t is (r (c A B)), and t itself in
\* every other case.
C16_ConsCancellation ==
    cons_optimizer(r) =
        IF IsOpOfCons(r, F) THEN Ok(ConsFirst(r))
        ELSE IF IsOpOfCons(r, R) THEN Ok(ConsRest(r))
        ELSE Ok(r)

\* the driver has just accepted the rewrite of (r (c A B)) into B, with A
\* another tree than B
C16_Witness ==
    /\ pc = "pass_end"
    /\ OPTIMIZERS[idx] = "cons_optimizer"
    /\ IsOpOfCons(start_r, R)
    /\ ConsFirst(start_r) # ConsRest(start_r)
    /\ r = ConsRest(start_r)

\* t is the two-element list (op N) with N an atom
IsOpOfAtom(t, op) ==
    /\ IsPair(t)
    /\ Left(t) = op
    /\ IsPair(Right(t))
    /\ Right(Right(t)) = null
    /\ IsAtom(Left(Right(t)))

RECURSIVE Pow2(_)
Pow2(n) == IF n = 0 THEN 1 ELSE 2 * Pow2(n - 1)
RECURSIVE BitLen(_)
BitLen(p) == IF p = 0 THEN 0 ELSE 1 + BitLen(p \div 2)

\* the path p followed by one more step dir (2: first, 3: rest): it takes
\* the place of p's leading 1 bit; the number 0, which is no path, counts as
\* the root
ExtendedPath(p, dir) ==
    IF p = 0 THEN dir
    ELSE p - Pow2(BitLen(p) - 1) + dir * Pow2(BitLen(p) - 1)

\* C17: path compaction.  For the driver's current tree t: when t is (f N) or
\* (r N) with N an atom, path_optimizer returns an atom, the path whose number
\* is N's (read as an unsigned number) extended by a first, respectively
\* rest, step; in every other case, (f N) and (r N) with N a pair among them,
\* it returns t itself, and it returns no error.
C17_PathCompaction ==
    LET res == path_optimizer(r)
        n == unsigned_from_u8(buf(Left(Right(r))))
    IN  /\ IsOk(res)
        /\ IF IsOpOfAtom(r, F)
           THEN /\ IsAtom(res.val)
                /\ unsigned_from_u8(buf(res.val)) = ExtendedPath(n, 2)
           ELSE IF IsOpOfAtom(r, R)
           THEN /\ IsAtom(res.val)
                /\ unsigned_from_u8(buf(res.val)) = ExtendedPath(n, 3)
           ELSE res.val = r

\* the driver has just accepted the compaction of (r N), N a path below the
\* root, into an atom
C17_Witness ==
    /\ pc = "pass_end"
    /\ OPTIMIZERS[idx] = "path_optimizer"
    /\ IsOpOfAtom(start_r, R)
    /\ unsigned_from_u8(buf(Left(Right(start_r)))) >= 2
    /\ IsAtom(r)

\* t is (a nil . ARGS) for some tree ARGS
IsApplyOfNil(t) ==
    /\ IsPair(t)
    /\ Left(t) = A
    /\ IsPair(Right(t))
    /\ Left(Right(t)) = null

\* C18: nil collapses.  For the driver's current tree t: quote_null_optimizer
\* returns nil when t is (q . nil) and t otherwise; apply_null_optimizer
\* returns nil when t is (a nil . ARGS), whatever ARGS is (an atom and a tail
\* that does not end in nil included), and t otherwise.
C18_NilCollapses ==
    /\ quote_null_optimizer(r) = IF r = Pair(Q, null) THEN Ok(null) ELSE Ok(r)
    /\ apply_null_optimizer(r) = IF IsApplyOfNil(r) THEN Ok(null) ELSE Ok(r)

\* the driver has just accepted the collapse of (a nil . ARGS) into nil
C18_Witness ==
    /\ pc = "pass_end"
    /\ OPTIMIZERS[idx] = "apply_null_optimizer"
    /\ IsApplyOfNil(start_r)
    /\ r = null

\* C19 as stated: no rule is tried on a current tree that is an atom or a
\* pair whose tail is not nil-terminated.
C19_EarlyExitAsStated ==
    pc = "for" => (IsPair(r) /\ proper_list(r, FALSE).some)

\* C19, amended: driver early exit.  A rule is tried only on a nil-terminated
\* list (the nil atom, the empty one, included); an input that is an atom is
\* returned unchanged at entry; a current tree that is a non-nil atom or a
\* pair whose tail is not nil-terminated is returned at the loop test without
\* any rule tried on it; and when an accepted rewrite has produced the nil
\* atom, the rules tried on it return it unchanged, the constant folder
\* without calling the evaluator, and the pass ends by returning nil.
C19_DriverEarlyExit ==
    [][ /\ (pc = "entry" /\ IsAtom(r)) =>
               (pc' = "done" /\ response' = Ok(r) /\ r' = r)
        /\ (pc = "while" /\ ~proper_list(r, FALSE).some) =>
               (pc' = "done" /\ response' = Ok(r) /\ r' = r)
        /\ pc' = "for" => proper_list(r', FALSE).some
        /\ (pc = "for" /\ IsAtom(r)) =>
               /\ r = null
               /\ r' = null
               /\ pc' \in {"for", "pass_end"}
               /\ constant_optimizer(r, poisoned_runner) = Ok(null)
        /\ (pc = "pass_end" /\ IsAtom(r) /\ start_r = r) =>
               (pc' = "done" /\ response' = Ok(r))
      ]_vars

\* the last rule is about to be tried on the nil atom that an accepted
\* rewrite produced
C19_Witness ==
    /\ pc = "for"
    /\ idx = 8
    /\ r = null
    /\ start_r = null
    /\ IsPair(operands)
    /\ IsPair(Left(operands))

(***************************************************************************)
(* Properties of CldbRun.                                                  *)
(***************************************************************************)
\* the call of step that just returned yielded Done, respectively a failure
YieldedDone == returned.some /\ "Final" \in DOMAIN returned.map
YieldedFailure ==
    returned.some /\ ("Throw" \in DOMAIN returned.map
                        \/ "Failure" \in DOMAIN returned.map)

\* C20: CldbRun end state.  ended starts false and final_result starts None;
\* in every state a final_result that is Some comes with ended true; over
\* every call of step, ended never goes from true to false, final_result
\* changes only in a call that yields Done, a call that yields Done sets
\* ended and makes final_result the value of that Done, and a call that
\* yields a failure sets ended and leaves final_result as it was.
C20_EndState ==
    /\ ~ended
    /\ ~final_result.some
    /\ [](final_result.some => ended)
    /\ [][ /\ ended => ended'
           /\ final_result' # final_result => YieldedDone'
           /\ (row' # row /\ YieldedDone') =>
                  /\ ended'
                  /\ step'.kind = "Done"
                  /\ final_result' = SomeValue(step'.val)
           /\ (row' # row /\ YieldedFailure') =>
                  /\ ended'
                  /\ final_result' = final_result
                  /\ step' = step
         ]_vars

\* the second row of a run came from a Done: the run has ended and its final
\* result is the value of that Done
C20_Witness ==
    /\ ended
    /\ final_result.some
    /\ YieldedDone
    /\ final_result.v = step.val
    /\ row = 2

\* the kinds of a computed step that is a failure
IsFailure(s) == s.kind \in {"RunExn", "RunErr"}

\* C21: CldbRun row emission.  A call of step returns Some(map) exactly when
\* the step it computed is an OpResult arriving while in_expr is true, a Done
\* or a failure; in_expr is true after a call exactly when the call computed
\* an Op with no pending value, or in_expr was true and the call did not
\* compute an OpResult; row grows by exactly 1 in a call that returns Some and
\* keeps its value in a call that returns None; and to_print is empty after
\* a call that returns Some.
C21_RowEmission ==
    [][ /\ returned'.some <=>
               \/ new_step'.kind = "OpResult" /\ in_expr
               \/ new_step'.kind = "Done"
               \/ IsFailure(new_step')
        /\ in_expr' <=>
               \/ new_step'.kind = "Op" /\ ~new_step'.pending
               \/ in_expr /\ new_step'.kind # "OpResult"
        /\ returned'.some => (row' = row + 1 /\ to_print' = EmptyMap)
        /\ ~returned'.some => row' = row
      ]_vars

\* the second row of a run came from an OpResult that closed a pending
\* operator: the row holds the operator and the value, and nothing is pending
C21_Witness ==
    /\ new_step.kind = "OpResult"
    /\ returned.some
    /\ "Operator" \in DOMAIN returned.map
    /\ "Value" \in DOMAIN returned.map
    /\ ~in_expr
    /\ to_print = EmptyMap
    /\ row = 2

\* C22: CldbRun error step.  A call of step whose computation is a failure
\* keeps the stored RunStep, sets ended, and returns Some(map) with the keys
\* Throw and Throw-Location (the failure's text and location) for a RunExn,
\* Failure and Failure-Location for a RunErr; a call whose computation is a
\* step stores that step.
C22_ErrorStep ==
    [][ /\ IsFailure(new_step') =>
               /\ step' = step
               /\ ended'
               /\ returned'.some
        /\ new_step'.kind = "RunExn" =>
               /\ {"Throw", "Throw-Location"} \subseteq DOMAIN returned'.map
               /\ returned'.map["Throw"] = new_step'.val.text
               /\ returned'.map["Throw-Location"] = new_step'.loc
        /\ new_step'.kind = "RunErr" =>
               /\ {"Failure", "Failure-Location"} \subseteq DOMAIN returned'.map
               /\ returned'.map["Failure"] = new_step'.val.text
               /\ returned'.map["Failure-Location"] = new_step'.loc
        /\ ~IsFailure(new_step') => step' = new_step'
      ]_vars

\* a RunErr arrived while an operator was pending on a stored Op: the Op is
\* still stored, the run has ended, and the row holds the failure
C22_Witness ==
    /\ new_step.kind = "RunErr"
    /\ step.kind = "Op"
    /\ ended
    /\ returned.some
    /\ "Failure" \in DOMAIN returned.map
    /\ "Operator" \in DOMAIN returned.map
    /\ ~final_result.some


\* the override a bespoke environment has registered for the function an
\* apply step is about to call, if the step is such an apply
IsOverridableApply(s) ==
    /\ s.kind = "Op"
    /\ s.val.variant = "Integer" /\ s.val.num = 2
    /\ ~s.pending
    /\ s.args # <<>>
HasRegisteredOverride(env, s) ==
    /\ env.kind = "CldbOverrideBespokeCode"
    /\ \E h \in DOMAIN env.symbol_table :
           /\ h = hex(sha256tree(s.args[1]))
           /\ env.symbol_table[h] \in DOMAIN env.overrides
RegisteredOverride(env, s) ==
    env.overrides[env.symbol_table[hex(sha256tree(s.args[1]))]]

\* C23: bespoke override selection.  get_override returns Some exactly for an
\* Op step whose operator is the integer 2, whose pending value is None, whose
\* arguments are a cons and whose function's tree hash names, through the
\* symbol table, a registered override; the step returned is OpResult at the
\* operator's location with the override's value and the step's parent, or
\* the override's failure; that step becomes new_step without a call of
\* run_step.  With CldbNoOverride nothing is returned for any step, and
\* new_step comes from exactly one call of run_step.
C23_OverrideSelection ==
    override_pc # "get_override" =>
        LET selected == IsOverridableApply(step)
                        /\ HasRegisteredOverride(overrides, step)
        IN  /\ replaced.some <=> selected
            /\ selected =>
                   LET got == CldbSingleBespokeOverride_get_override(
                                  RegisteredOverride(overrides, step),
                                  Tail(step.args))
                   IN  IF got.tag = "Ok"
                       THEN /\ replaced.v.kind = "OpResult"
                            /\ replaced.v.val = got.val
                            /\ replaced.v.parent = step.parent
                            /\ replaced.v.loc = step.val.loc
                       ELSE replaced.v = got.val
            /\ overrides.kind = "CldbNoOverride" => ~replaced.some
            /\ override_pc = "computed" =>
                   IF replaced.some
                   THEN new_step = replaced.v /\ run_step_calls = 0
                   ELSE run_step_calls = 1

\* C23 witness: an apply of a function with a registered override was
\* replaced by an OpResult carrying the override's value and parent "p2"
C23_Witness ==
    /\ override_pc = "computed"
    /\ step.kind = "Op" /\ step.val.num = 2 /\ step.parent = "p2"
    /\ replaced.some
    /\ new_step.kind = "OpResult"
    /\ new_step.parent = "p2"
    /\ new_step.val = SExp_Integer("*hex*(2):3", 2)
    /\ run_step_calls = 0


\* x is a nil-terminated list
RECURSIVE IsNilTerminated(_)
IsNilTerminated(x) ==
    IF IsAtom(x) THEN x = null ELSE IsNilTerminated(Right(x))

\* the forms of x in depth-first left-to-right order: each element of x, when
\* x is a nil-terminated list, followed by the forms of that element
RECURSIVE FormsOf(_)
FormsOf(x) ==
    IF IsAtom(x) \/ ~IsNilTerminated(x) THEN <<>>
    ELSE <<Left(x)>> \o FormsOf(Left(x)) \o FormsOf(Right(x))

\* f is exactly (include NAME), NAME the atom of a known dialect
IsDialectInclude(f) ==
    /\ IsPair(f) /\ Left(f) = INC
    /\ IsPair(Right(f)) /\ Left(Right(f)) \in {CL21, CL22}
    /\ Right(Right(f)) = null

\* C24: dialect detection.  detect_modern returns the dialect of the first
\* form, in depth-first left-to-right order over the elements of
\* nil-terminated lists, that is exactly (include NAME) with NAME a known
\* dialect: stepping 21 for *standard-cl-21* and 22 for *standard-cl-22*; it
\* returns the default dialect, with no stepping, when there is no such form.
\* In particular the default comes back from a one-element include list, an
\* include of an unknown dialect, an atom, a list that is not nil-terminated
\* and a program that is itself the include form.
C24_DialectDetection ==
    dialect_result.some =>
        LET includes == SelectSeq(FormsOf(dialect_sexp), IsDialectInclude)
        IN  /\ IF includes = <<>>
               THEN ~dialect_result.v.stepping.some
               ELSE /\ dialect_result.v.stepping.some
                    /\ dialect_result.v.stepping.v =
                           IF Left(Right(includes[1])) = CL21 THEN 21 ELSE 22
            /\ dialect_sexp \in
                   { enlist(<<enlist(<<INC>>), enlist(<<INC, CL21, CL22>>)>>),
                     enlist(<<enlist(<<INC, CL23>>)>>),
                     INC,
                     Pair(enlist(<<INC, CL22>>), Atom(<<1>>)),
                     enlist(<<INC, CL21>>) }
               => ~dialect_result.v.stepping.some

\* C24 witness: detection returned stepping 22 for a program whose nested
\* (include *standard-cl-22*) comes before a later (include *standard-cl-21*)
C24_Witness ==
    /\ dialect_sexp =
           enlist(<<INC, enlist(<<enlist(<<INC, CL22>>)>>),
                    enlist(<<INC, CL21>>)>>)
    /\ dialect_result.some
    /\ dialect_result.v.stepping.some
    /\ dialect_result.v.stepping.v = 22
====
